---- MODULE Spec2Model ----
(***************************************************************************)
(* A model of question-sync: the resumable crawl orchestrator of           *)
(* src/src/index.js (main, runQuery, requestWithRetry) and the asset       *)
(* mirroring pass of src/src/assetSync.js (processDetailAssets).           *)
(*                                                                         *)
(* Spec       the orchestrator: runs of main() against the document store, *)
(*            with process termination possible before every durable write *)
(*            and every network request, and restarts.                     *)
(* SpecRetry  requestWithRetry applied to every sequence of attempt        *)
(*            outcomes.                                                    *)
(* SpecAsset  processDetailAssets applied to bounded detail records.       *)
(***************************************************************************)
EXTENDS Integers, Sequences, FiniteSets, TLC

VARIABLES cfg, db, pc, mem, net, hist, rt, ast

vars == <<cfg, db, pc, mem, net, hist, rt, ast>>

(***************************************************************************)
(* Bounds of the model and scaled program constants.                       *)
(***************************************************************************)
\* runs of main() (starts and restarts) a behaviour holds
MaxRuns == 2
\* anomalies of the remote side per behaviour: requests that exhaust their
\* retries, list responses with a business error or without a wrapper, and
\* asset passes that raise
MaxFails == 1
\* config.listLimit (page size), scaled down
ListLimit == 2
\* config.maxRetries
MaxRetries == 3
\* config.retryDelaySec * 1000 and config.rateLimitDelaySec * 1000
RetryDelayMs == 5000
RateLimitDelayMs == 60000

(***************************************************************************)
(* The remote catalog API: the queries, and the page a list request gets.  *)
(***************************************************************************)
Queries == <<"a", "b">>

\* the slug of a list item that has none (item.slug is falsy)
NoSlug == -1

\* the items each query matches, in the order of the list endpoint, each item
\* written as its slug; the single query (key "") has a second page, one item
\* of which has no slug, and the two queries of the multi-query mode overlap
\* in one item
Catalog(q) ==
    IF q = "a" THEN <<0, 1>>
    ELSE IF q = "b" THEN <<1, 2>>
    ELSE <<0, 1, NoSlug, 2>>

Min(x, y) == IF x <= y THEN x ELSE y

\* the items of the page of query q at an offset: at most ListLimit of them
PageItems(q, offset) ==
    SubSeq(Catalog(q), offset + 1, Min(offset + ListLimit, Len(Catalog(q))))

\* a filter that keeps every item, with or without a slug
itemsWithSlug_All(items) == items

\* items.filter((item) => item.slug) (line 335)
itemsWithSlug(items) ==
    LET hasSlug(item) == item # NoSlug
    IN SelectSeq(items, hasSlug)

\* an error message is the sequence of its phrases
Includes(message, phrase) == \E i \in 1..Len(message) : message[i] = phrase

WindowMessage == <<"search_phase_execution_exception", "Result window is too large">>
WindowSettingMessage == <<"illegal_argument_exception", "max_result_window">>
OtherMessage == <<"permission denied">>
NoMessage == <<>>

\* the meta objects a list response carries
ListMetas ==
    { [error |-> NoMessage, error_type |-> NoMessage],
      [error |-> WindowMessage, error_type |-> NoMessage],
      [error |-> WindowSettingMessage, error_type |-> NoMessage],
      [error |-> NoMessage, error_type |-> OtherMessage] }

getListError(meta) ==
    IF meta.error # NoMessage THEN meta.error
    ELSE IF meta.error_type # NoMessage THEN meta.error_type
    ELSE NoMessage

\* a classification that knows the capitalised phrase only
isMaxWindowError_OnePhrase(message) ==
    IF message = NoMessage THEN FALSE
    ELSE Includes(message, "Result window is too large")

isMaxWindowError(message) ==
    IF message = NoMessage THEN FALSE
    ELSE \/ Includes(message, "max_result_window")
         \/ Includes(message, "Result window is too large")
         \/ Includes(message, "result window is too large")

\* getListPayload of a response: its items and meta
getListPayload(response) ==
    IF response.wrapped
    THEN [items |-> response.items, meta |-> response.meta]
    ELSE [items |-> <<>>, meta |-> [error |-> NoMessage, error_type |-> NoMessage]]

NoMeta == [error |-> NoMessage, error_type |-> NoMessage]

\* no list response yet in the run, where the length of items is recorded
NoItems == -1

\* the regular response of the list endpoint for query q at an offset
PageResponse(q, offset) ==
    [wrapped |-> TRUE, items |-> PageItems(q, offset), meta |-> NoMeta]

\* the other responses it may give: a business error, or no wrapper object
OddResponses(q, offset) ==
    { [wrapped |-> TRUE, items |-> PageItems(q, offset), meta |-> m] :
        m \in ListMetas \ {NoMeta} }
    \cup { [wrapped |-> FALSE, items |-> <<>>, meta |-> NoMeta] }

(***************************************************************************)
(* requestWithRetry.  The environment decides the outcome of every attempt *)
(* (outs[k] for attempt k); the operator returns what the call did: the    *)
(* events in order, and the result or the error raised.                    *)
(***************************************************************************)
\* status 0: the error carries no response (or there is no error)
OkOutcome == [ok |-> TRUE, status |-> 0, message |-> NoMessage]
Err429 == [ok |-> FALSE, status |-> 429, message |-> <<"rate limited">>]
Err500 == [ok |-> FALSE, status |-> 500, message |-> <<"server error">>]
ErrNet == [ok |-> FALSE, status |-> 0, message |-> <<"timeout">>]
\* no error caught yet (lastError undefined)
NoError == [ok |-> TRUE, status |-> 0, message |-> NoMessage]

AttemptOutcomes == {OkOutcome, Err429, Err500, ErrNet}

\* a catch that sleeps, after any failure, only while attempts remain
sleepAfter_WhileAttemptsRemain(out, attempt, maxRetries) ==
    IF attempt < maxRetries
    THEN << [e |-> "sleep",
             ms |-> IF out.status = 429 THEN RateLimitDelayMs ELSE RetryDelayMs] >>
    ELSE <<>>

\* the catch of the loop (lines 65-73): the sleep after a failed attempt
sleepAfter(out, attempt, maxRetries) ==
    IF out.status = 429
    THEN << [e |-> "sleep", ms |-> RateLimitDelayMs] >>
    ELSE IF attempt < maxRetries
    THEN << [e |-> "sleep", ms |-> RetryDelayMs] >>
    ELSE <<>>

\* one pass of the for loop and what follows it, from attempt number `attempt`
RECURSIVE retryFrom(_, _, _, _, _, _)
retryFrom(outs, context, maxRetries, attempt, lastError, events) ==
    IF attempt > maxRetries
    THEN [ok |-> FALSE,
          error |-> lastError,
          events |-> Append(Append(events, [e |-> "insert"]), [e |-> "throw"]),
          errorDocs |-> << [context |-> context,
                            status |-> IF lastError.status # 0 THEN lastError.status ELSE 0,
                            message |-> IF lastError.message # NoMessage
                                        THEN lastError.message
                                        ELSE <<"Unknown error">>] >>]
    ELSE LET out == outs[attempt]
             called == Append(events, [e |-> "call"])
         IN IF out.ok
            THEN [ok |-> TRUE, error |-> NoError,
                  events |-> Append(called, [e |-> "return"]),
                  errorDocs |-> <<>>]
            ELSE retryFrom(outs, context, maxRetries, attempt + 1, out,
                           called \o sleepAfter(out, attempt, maxRetries))

\* a loop that gives up one attempt early
requestWithRetry_OneShort(outs, context, maxRetries) ==
    retryFrom(outs, context, maxRetries - 1, 1, NoError, <<>>)

requestWithRetry(outs, context, maxRetries) ==
    retryFrom(outs, context, maxRetries, 1, NoError, <<>>)

\* the attempt outcomes the orchestrator's requests meet
NetOutcomes == [1..MaxRetries -> {OkOutcome, Err500}]

(***************************************************************************)
(* The persisted SyncState document and the in-memory state of main().     *)
(***************************************************************************)
\* the keys of multiQuery.perQuery: the queries, and "" for the single query
QueryKeys == {"", "a", "b"}

\* no entry under a key of multiQuery.perQuery
AbsentPerQuery ==
    [present |-> FALSE, status |-> "none", lastOffset |-> 0,
     listRequests |-> 0, detailRequests |-> 0, listItemsSaved |-> 0,
     detailItemsSaved |-> 0, detailItemsSkipped |-> 0, failedRequests |-> 0,
     lastError |-> NoMessage, stopReason |-> "none", lastSlugProcessed |-> -1]

\* the perQuery record runQuery creates for a query it has no record of
FreshPerQuery ==
    [AbsentPerQuery EXCEPT !.present = TRUE, !.status = "running"]

FreshMultiQuery(list) ==
    [queries |-> list, currentIndex |-> 0,
     perQuery |-> [k \in QueryKeys |-> AbsentPerQuery]]

\* the state collection before the first run: no document
NoState ==
    [exists |-> FALSE, status |-> "none", lastOffset |-> 0,
     listRequests |-> 0, detailRequests |-> 0, listItemsSaved |-> 0,
     detailItemsSaved |-> 0, detailItemsSkipped |-> 0, failedRequests |-> 0,
     lastError |-> NoMessage, stopReason |-> "none", currentQuery |-> "none",
     lastSlugProcessed |-> -1, hasMulti |-> FALSE,
     multiQuery |-> FreshMultiQuery(<<>>)]

\* $set of the given fields, creating the document when there is none
updateState(doc, updates) ==
    [k \in DOMAIN doc |->
        IF k = "exists" THEN TRUE
        ELSE IF k \in DOMAIN updates THEN updates[k]
        ELSE doc[k]]

\* persistState writing the updates without the in-memory multiQuery state
persistState_NoMulti(doc, m, updates) ==
    updateState(doc, updates @@ [hasMulti |-> TRUE])

\* persistState of main(): the updates plus the in-memory multiQuery state
persistState(doc, m, updates) ==
    updateState(doc, updates @@ [hasMulti |-> TRUE, multiQuery |-> m.mq])

\* what the item loop did with the items of the page at hand, and the slug of
\* the detail fetched last (observed, not stored by the program)
NoTally == [saved |-> 0, skipped |-> 0, failed |-> 0, fetched |-> NoSlug]

NoMem ==
    [listRequests |-> 0, detailRequests |-> 0, listItemsSaved |-> 0,
     detailItemsSaved |-> 0, detailItemsSkipped |-> 0, failedRequests |-> 0,
     mq |-> FreshMultiQuery(<<>>), i |-> 0, queryKey |-> "none", localOffset |-> 0,
     items |-> <<>>, idx |-> 0, existingSlugSet |-> {}, error |-> NoError]

queryList == IF cfg.multi THEN Queries ELSE <<>>

\* the perQuery object of the running query
perQuery(m) == m.mq.perQuery[m.queryKey]

setPerQuery(m, rec) ==
    [m EXCEPT !.mq.perQuery[m.queryKey] = rec]

\* runQuery starting every query at offset 0, whatever was checkpointed
enterRunQuery_FromZero(m, key) ==
    LET pq == IF m.mq.perQuery[key].present THEN m.mq.perQuery[key] ELSE FreshPerQuery
    IN [m EXCEPT !.queryKey = key, !.mq.perQuery[key] = pq, !.localOffset = 0]

\* lines 219-234 of runQuery: the perQuery record and the offset to start from
enterRunQuery(m, key) ==
    LET pq == IF m.mq.perQuery[key].present THEN m.mq.perQuery[key] ELSE FreshPerQuery
    IN [m EXCEPT !.queryKey = key, !.mq.perQuery[key] = pq, !.localOffset = pq.lastOffset]

\* the idempotent re-run guard of main()
alreadyCompleted(existing) ==
    /\ existing.status = "completed"
    /\ ~cfg.forceResume
    /\ \/ queryList = <<>>
       \/ existing.hasMulti /\ existing.multiQuery.currentIndex >= Len(queryList)

\* a skip policy without the only-fetch-missing branch
skipDetail_NoOnlyMissing(m, slug) ==
    cfg.skipExistingDetails /\ slug \in m.existingSlugSet

\* a skip policy that skips every existing slug, whatever the flags
skipDetail_AnyExisting(m, slug) == slug \in m.existingSlugSet

\* the skip policy of the item loop
skipDetail(m, slug) ==
    \/ cfg.skipExistingDetails /\ slug \in m.existingSlugSet
    \/ cfg.detailOnlyIfMissing /\ slug \in m.existingSlugSet

\* a window test on the offset alone, not on the end of the page
windowReached_OffsetOnly(offset) ==
    /\ cfg.listMaxResultWindow >= 0
    /\ offset > cfg.listMaxResultWindow

\* Number.isFinite(config.listMaxResultWindow): -1 stands for no window
windowReached(offset) ==
    /\ cfg.listMaxResultWindow >= 0
    /\ offset + ListLimit > cfg.listMaxResultWindow

NoRequest == [kind |-> "none", query |-> "none", offset |-> 0, slug |-> -1]

\* the requests of the current run: how many, the last one, and the exit code
NoNet == [list |-> 0, detail |-> 0, last |-> NoRequest, exitCode |-> -1]

(***************************************************************************)
(* The orchestrator's steps.  Each is the code up to and including its     *)
(* next durable write or network request, so that the process can end      *)
(* between any two of them.                                                *)
(***************************************************************************)
OrchUnchanged == UNCHANGED <<cfg, rt, ast>>

\* a loop over the queries that always starts at the first one
loopStart_First(multiQueryState) == 0

\* the index the for loop of main() starts at: multiQueryState.currentIndex || 0
loopStart(multiQueryState) == multiQueryState.currentIndex

\* main() up to the first checkpoint, or its early return
Start ==
    /\ pc \in {"down", "exited"}
    /\ hist.runs < MaxRuns
    /\ LET existing == db.state
           snapshot == [hist EXCEPT !.runs = @ + 1,
                                    !.startCompleted = (existing.status = "completed"),
                                    !.savedAtStart = db.detail,
                                    !.interrupted = (pc = "down" /\ hist.runs > 0),
                                    !.listMeta = NoMeta,
                                    !.listItems = NoItems,
                                    !.page = NoTally,
                                    !.indexAtStart = IF existing.hasMulti
                                                     THEN existing.multiQuery.currentIndex
                                                     ELSE 0,
                                    !.ckptAtStart = [k \in QueryKeys |->
                                        existing.multiQuery.perQuery[k].lastOffset]]
           m0 == [NoMem EXCEPT
                    !.listRequests = existing.listRequests,
                    !.detailRequests = existing.detailRequests,
                    !.listItemsSaved = existing.listItemsSaved,
                    !.detailItemsSaved = existing.detailItemsSaved,
                    !.detailItemsSkipped = existing.detailItemsSkipped,
                    !.failedRequests = existing.failedRequests,
                    !.mq = IF existing.hasMulti THEN existing.multiQuery
                           ELSE FreshMultiQuery(queryList)]
           m1 == [m0 EXCEPT !.mq.queries = IF Len(@) = 0 THEN queryList ELSE @,
                            !.i = loopStart(m0.mq)]
       IN /\ hist' = snapshot
          /\ IF alreadyCompleted(existing)
             THEN /\ pc' = "exited"
                  /\ net' = [NoNet EXCEPT !.exitCode = 0]
                  /\ mem' = NoMem
                  /\ UNCHANGED db
             ELSE /\ net' = NoNet
                  /\ db' = [db EXCEPT !.state = updateState(existing,
                                [status |-> "running",
                                 lastOffset |-> existing.lastOffset,
                                 listRequests |-> existing.listRequests,
                                 detailRequests |-> existing.detailRequests,
                                 listItemsSaved |-> existing.listItemsSaved,
                                 detailItemsSaved |-> existing.detailItemsSaved,
                                 detailItemsSkipped |-> existing.detailItemsSkipped,
                                 failedRequests |-> existing.failedRequests])]
                  /\ IF queryList # <<>>
                     THEN mem' = m1 /\ pc' = "loop"
                     ELSE mem' = enterRunQuery(m0, "") /\ pc' = "page"
    /\ OrchUnchanged

\* the for loop of main(): checkpoint the index of the query, then enter it
NextQuery ==
    /\ pc = "loop"
    /\ mem.i < Len(queryList)
    /\ LET query == queryList[mem.i + 1]
           m1 == [mem EXCEPT !.mq.currentIndex = mem.i]
       IN /\ db' = [db EXCEPT !.state = persistState(@, m1,
                        [status |-> "running", currentQuery |-> query])]
          /\ mem' = enterRunQuery(m1, query)
          /\ pc' = "page"
    /\ UNCHANGED <<net, hist>>
    /\ OrchUnchanged

\* a completion that rewinds the index of the active query for the next run
Finish_Rewinds ==
    /\ \/ pc = "loop" /\ mem.i >= Len(queryList)
       \/ pc = "finish"
    /\ db' = [db EXCEPT !.state = persistState(@, [mem EXCEPT !.mq.currentIndex = 0],
                    [status |-> "completed", currentQuery |-> "null"])]
    /\ pc' = "exited"
    /\ net' = [net EXCEPT !.exitCode = 0]
    /\ mem' = NoMem
    /\ UNCHANGED hist
    /\ OrchUnchanged

\* after the last query (or the single one): the run is completed
Finish ==
    /\ \/ pc = "loop" /\ mem.i >= Len(queryList)
       \/ pc = "finish"
    /\ db' = [db EXCEPT !.state = persistState(@, mem,
                    [status |-> "completed", currentQuery |-> "null"])]
    /\ pc' = "exited"
    /\ net' = [net EXCEPT !.exitCode = 0]
    /\ mem' = NoMem
    /\ UNCHANGED hist
    /\ OrchUnchanged

\* where control goes when runQuery returns
afterQuery(m) == IF queryList # <<>> THEN "loop" ELSE "finish"

leaveQuery(m) == IF queryList # <<>> THEN [m EXCEPT !.i = @ + 1] ELSE m

\* top of the page loop: the configured result window is reached
WindowStop ==
    /\ pc = "page"
    /\ windowReached(mem.localOffset)
    /\ LET message == <<"Reached max result window">>
           pq == [perQuery(mem) EXCEPT !.status = "completed",
                                       !.lastOffset = mem.localOffset,
                                       !.stopReason = "max_result_window",
                                       !.lastError = message]
           m1 == setPerQuery(mem, pq)
       IN /\ db' = [db EXCEPT !.state = persistState(@, m1,
                        [status |-> "running", lastOffset |-> mem.localOffset,
                         lastError |-> message, stopReason |-> "max_result_window",
                         currentQuery |-> mem.queryKey])]
          /\ mem' = leaveQuery(m1)
          /\ pc' = afterQuery(m1)
    /\ UNCHANGED <<net, hist>>
    /\ OrchUnchanged

\* top of the page loop: count the list request and checkpoint
PageTop ==
    /\ pc = "page"
    /\ ~windowReached(mem.localOffset)
    /\ LET pq == [perQuery(mem) EXCEPT !.listRequests = @ + 1]
           m1 == [setPerQuery(mem, pq) EXCEPT !.listRequests = @ + 1]
       IN /\ db' = [db EXCEPT !.state = persistState(@, m1,
                        [listRequests |-> m1.listRequests, currentQuery |-> mem.queryKey])]
          /\ mem' = m1
          /\ pc' = "list_fetch"
    /\ UNCHANGED <<net, hist>>
    /\ OrchUnchanged

\* an empty page that moves the checkpoint one page on
emptyPageOffset_Advanced(m) == m.localOffset + ListLimit

\* perQuery.lastOffset on an empty page (line 318)
emptyPageOffset(m) == m.localOffset

\* a list error that closes the query as completed, whatever its phrasing
listErrorStatus_AlwaysCompleted(stopReason) == "completed"

\* perQuery.status on a list error (line 292)
listErrorStatus(stopReason) ==
    IF stopReason = "max_result_window" THEN "completed" ELSE "failed"

\* what runQuery does with a list response: stop on an error or an empty page,
\* else bulk-upsert the items that have a slug
handleListResponse(response) ==
    LET payload == getListPayload(response)
        listError == getListError(payload.meta)
        stopReason == IF isMaxWindowError(listError) THEN "max_result_window" ELSE "list_error"
        windowStop == stopReason = "max_result_window"
        pqErr == [perQuery(mem) EXCEPT
                    !.status = listErrorStatus(stopReason),
                    !.lastOffset = mem.localOffset,
                    !.lastError = listError,
                    !.stopReason = stopReason]
        mErr == setPerQuery(mem, pqErr)
        pqEmpty == [perQuery(mem) EXCEPT !.status = "completed",
                                         !.lastOffset = emptyPageOffset(mem)]
        mEmpty == setPerQuery(mem, pqEmpty)
        withSlug == itemsWithSlug(payload.items)
        slugs == {withSlug[i] : i \in 1..Len(withSlug)}
        upserted == Cardinality(slugs \ db.list)
        pqSaved == [perQuery(mem) EXCEPT !.listItemsSaved = @ + upserted]
        mSaved == [setPerQuery(mem, pqSaved) EXCEPT !.listItemsSaved = @ + upserted,
                                                    !.items = withSlug]
    IN IF listError # NoMessage
       THEN /\ db' = [db EXCEPT !.state = persistState(@, mErr,
                        [status |-> IF windowStop THEN "running" ELSE "failed",
                         lastOffset |-> mem.localOffset,
                         lastError |-> listError,
                         stopReason |-> stopReason,
                         currentQuery |-> mem.queryKey])]
            /\ mem' = leaveQuery(mErr)
            /\ pc' = afterQuery(mErr)
       ELSE IF Len(payload.items) = 0
       THEN /\ db' = [db EXCEPT !.state = persistState(@, mEmpty,
                        [status |-> "running", lastOffset |-> emptyPageOffset(mem),
                         currentQuery |-> mem.queryKey])]
            /\ mem' = leaveQuery(mEmpty)
            /\ pc' = afterQuery(mEmpty)
       ELSE /\ db' = [db EXCEPT !.list = @ \cup slugs]
            /\ mem' = mSaved
            /\ pc' = "list_saved"

\* the list request, through requestWithRetry, and the handling of its response
ListFetch ==
    /\ pc = "list_fetch"
    /\ net' = [net EXCEPT !.list = @ + 1,
                          !.last = [kind |-> "list", query |-> mem.queryKey,
                                    offset |-> mem.localOffset, slug |-> -1]]
    /\ \E outs \in NetOutcomes :
         LET r == requestWithRetry(outs,
                    [type |-> "list", offset |-> mem.localOffset, slug |-> -1,
                     query |-> mem.queryKey], MaxRetries)
         IN IF r.ok
            THEN \/ /\ handleListResponse(PageResponse(mem.queryKey, mem.localOffset))
                    /\ hist' = [hist EXCEPT !.listMeta = NoMeta,
                                            !.listItems = Len(PageItems(mem.queryKey,
                                                                        mem.localOffset))]
                 \/ /\ hist.fails < MaxFails
                    /\ \E response \in OddResponses(mem.queryKey, mem.localOffset) :
                         /\ handleListResponse(response)
                         /\ hist' = [hist EXCEPT !.fails = @ + 1,
                                                 !.listMeta = getListPayload(response).meta,
                                                 !.listItems =
                                                     Len(getListPayload(response).items)]
            ELSE /\ hist.fails < MaxFails
                 /\ hist' = [hist EXCEPT !.fails = @ + 1, !.listMeta = NoMeta,
                                         !.listItems = NoItems]
                 /\ db' = [db EXCEPT !.errors = @ \o r.errorDocs]
                 /\ mem' = [mem EXCEPT !.error = r.error]
                 /\ pc' = "list_failed"
    /\ OrchUnchanged

\* a catch that checkpoints the failure and goes on with the next query
ListFailed_Swallowed ==
    /\ pc = "list_failed"
    /\ LET pq == [perQuery(mem) EXCEPT !.failedRequests = @ + 1,
                                       !.lastError = mem.error.message]
           m1 == [setPerQuery(mem, pq) EXCEPT !.failedRequests = @ + 1]
       IN /\ db' = [db EXCEPT !.state = persistState(@, m1,
                       [failedRequests |-> m1.failedRequests,
                        lastError |-> mem.error.message,
                        lastOffset |-> mem.localOffset,
                        currentQuery |-> mem.queryKey])]
          /\ mem' = leaveQuery(m1)
          /\ pc' = afterQuery(m1)
    /\ UNCHANGED <<net, hist>>
    /\ OrchUnchanged

\* the catch of a failed list request: checkpoint and rethrow; main() rejects
ListFailed ==
    /\ pc = "list_failed"
    /\ LET pq == [perQuery(mem) EXCEPT !.failedRequests = @ + 1,
                                       !.lastError = mem.error.message]
           m1 == [setPerQuery(mem, pq) EXCEPT !.failedRequests = @ + 1]
       IN db' = [db EXCEPT !.state = persistState(@, m1,
                    [failedRequests |-> m1.failedRequests,
                     lastError |-> mem.error.message,
                     lastOffset |-> mem.localOffset,
                     currentQuery |-> mem.queryKey])]
    /\ pc' = "exited"
    /\ net' = [net EXCEPT !.exitCode = 1]
    /\ mem' = NoMem
    /\ UNCHANGED hist
    /\ OrchUnchanged

\* the checkpoint of a page's list items already advancing past the page
pageCheckpointOffset_Advanced(m) == m.localOffset + ListLimit

\* the offset checkpointed once the page's list items are saved (line 358)
pageCheckpointOffset(m) == m.localOffset

\* after the bulk write: checkpoint the page, look up the existing detail slugs
PageCheckpoint ==
    /\ pc = "list_saved"
    /\ LET pq == [perQuery(mem) EXCEPT !.lastOffset = pageCheckpointOffset(mem)]
           m1 == setPerQuery(mem, pq)
           slugs == {mem.items[i] : i \in 1..Len(mem.items)}
       IN /\ db' = [db EXCEPT !.state = persistState(@, m1,
                        [lastOffset |-> pageCheckpointOffset(mem),
                         listItemsSaved |-> mem.listItemsSaved,
                         currentQuery |-> mem.queryKey])]
          /\ mem' = [m1 EXCEPT !.existingSlugSet = slugs \cap db.detail, !.idx = 1]
          /\ pc' = "item"
    /\ hist' = [hist EXCEPT !.page = NoTally]
    /\ UNCHANGED net
    /\ OrchUnchanged

\* an item the skip policy skips
ItemSkip ==
    /\ pc = "item"
    /\ mem.idx <= Len(mem.items)
    /\ skipDetail(mem, mem.items[mem.idx])
    /\ LET pq == [perQuery(mem) EXCEPT !.detailItemsSkipped = @ + 1]
           m1 == [setPerQuery(mem, pq) EXCEPT !.detailItemsSkipped = @ + 1]
       IN /\ db' = [db EXCEPT !.state = persistState(@, m1,
                        [detailItemsSkipped |-> m1.detailItemsSkipped,
                         lastSlugProcessed |-> mem.items[mem.idx],
                         currentQuery |-> mem.queryKey])]
          /\ mem' = [m1 EXCEPT !.idx = @ + 1]
          /\ pc' = "item"
    /\ hist' = [hist EXCEPT !.page.skipped = @ + 1]
    /\ UNCHANGED net
    /\ OrchUnchanged

\* an item to fetch: count the detail request and checkpoint
ItemRequest ==
    /\ pc = "item"
    /\ mem.idx <= Len(mem.items)
    /\ ~skipDetail(mem, mem.items[mem.idx])
    /\ LET pq == [perQuery(mem) EXCEPT !.detailRequests = @ + 1]
           m1 == [setPerQuery(mem, pq) EXCEPT !.detailRequests = @ + 1]
       IN /\ db' = [db EXCEPT !.state = persistState(@, m1,
                        [detailRequests |-> m1.detailRequests,
                         currentQuery |-> mem.queryKey])]
          /\ mem' = m1
          /\ pc' = "detail_fetch"
    /\ UNCHANGED <<net, hist>>
    /\ OrchUnchanged

\* what follows a fetched detail: processDetailAssets returns, or it raises and
\* the catch checkpoints the failure (lines 443-457)
afterDetailFetched ==
    \/ /\ pc' = "detail_save"
       /\ hist' = [hist EXCEPT !.page.fetched = mem.items[mem.idx]]
       /\ UNCHANGED <<db, mem>>
    \/ /\ hist.fails < MaxFails
       /\ hist' = [hist EXCEPT !.fails = @ + 1,
                               !.page.fetched = mem.items[mem.idx]]
       /\ LET message == <<"asset processing failed">>
              pq == [perQuery(mem) EXCEPT !.failedRequests = @ + 1,
                                          !.lastError = message]
              m1 == [setPerQuery(mem, pq) EXCEPT !.failedRequests = @ + 1]
          IN /\ db' = [db EXCEPT !.state = persistState(@, m1,
                           [failedRequests |-> m1.failedRequests,
                            lastError |-> message,
                            lastSlugProcessed |-> mem.items[mem.idx],
                            lastOffset |-> mem.localOffset,
                            currentQuery |-> mem.queryKey])]
             /\ mem' = [m1 EXCEPT !.error = [ok |-> FALSE, status |-> 0,
                                             message |-> message]]
             /\ pc' = "asset_error"

\* the detail request, through requestWithRetry, and the asset pass on its result
DetailFetch ==
    /\ pc = "detail_fetch"
    /\ net' = [net EXCEPT !.detail = @ + 1,
                          !.last = [kind |-> "detail", query |-> mem.queryKey,
                                    offset |-> mem.localOffset,
                                    slug |-> mem.items[mem.idx]]]
    /\ \E outs \in NetOutcomes :
         LET r == requestWithRetry(outs,
                    [type |-> "detail", offset |-> mem.localOffset,
                     slug |-> mem.items[mem.idx], query |-> mem.queryKey], MaxRetries)
         IN IF r.ok
            THEN afterDetailFetched
            ELSE /\ hist.fails < MaxFails
                 /\ hist' = [hist EXCEPT !.fails = @ + 1]
                 /\ db' = [db EXCEPT !.errors = @ \o r.errorDocs]
                 /\ mem' = [mem EXCEPT !.error = r.error]
                 /\ pc' = "detail_failed"
    /\ OrchUnchanged

\* a catch that leaves the item loop instead of going on with the next item
DetailFailed_AbortsPage ==
    /\ pc = "detail_failed"
    /\ LET pq == [perQuery(mem) EXCEPT !.failedRequests = @ + 1,
                                       !.lastError = mem.error.message]
           m1 == [setPerQuery(mem, pq) EXCEPT !.failedRequests = @ + 1]
       IN /\ db' = [db EXCEPT !.state = persistState(@, m1,
                        [failedRequests |-> m1.failedRequests,
                         lastError |-> mem.error.message,
                         lastSlugProcessed |-> mem.items[mem.idx],
                         lastOffset |-> mem.localOffset,
                         currentQuery |-> mem.queryKey])]
          /\ mem' = [m1 EXCEPT !.idx = Len(mem.items) + 1, !.error = NoError]
          /\ pc' = "item"
    /\ hist' = [hist EXCEPT !.page.failed = @ + 1]
    /\ UNCHANGED net
    /\ OrchUnchanged

\* the catch of a failed detail request: checkpoint, go on with the next item
DetailFailed ==
    /\ pc = "detail_failed"
    /\ LET pq == [perQuery(mem) EXCEPT !.failedRequests = @ + 1,
                                       !.lastError = mem.error.message]
           m1 == [setPerQuery(mem, pq) EXCEPT !.failedRequests = @ + 1]
       IN /\ db' = [db EXCEPT !.state = persistState(@, m1,
                        [failedRequests |-> m1.failedRequests,
                         lastError |-> mem.error.message,
                         lastSlugProcessed |-> mem.items[mem.idx],
                         lastOffset |-> mem.localOffset,
                         currentQuery |-> mem.queryKey])]
          /\ mem' = [m1 EXCEPT !.idx = @ + 1, !.error = NoError]
          /\ pc' = "item"
    /\ hist' = [hist EXCEPT !.page.failed = @ + 1]
    /\ UNCHANGED net
    /\ OrchUnchanged

\* a catch that abandons the item after logging, as the detail catch does
AssetErrorLog_Abandons ==
    /\ pc = "asset_error"
    /\ db' = [db EXCEPT !.errors = Append(@,
                    [context |-> [type |-> "asset", offset |-> mem.localOffset,
                                  slug |-> mem.items[mem.idx], query |-> "none"],
                     status |-> 0,
                     message |-> mem.error.message])]
    /\ mem' = [mem EXCEPT !.error = NoError, !.idx = @ + 1]
    /\ pc' = "item"
    /\ UNCHANGED <<net, hist>>
    /\ OrchUnchanged

\* the catch goes on: one SyncError of type asset
AssetErrorLog ==
    /\ pc = "asset_error"
    /\ db' = [db EXCEPT !.errors = Append(@,
                    [context |-> [type |-> "asset", offset |-> mem.localOffset,
                                  slug |-> mem.items[mem.idx], query |-> "none"],
                     status |-> 0,
                     message |-> mem.error.message])]
    /\ mem' = [mem EXCEPT !.error = NoError]
    /\ pc' = "detail_save"
    /\ UNCHANGED <<net, hist>>
    /\ OrchUnchanged

\* the upsert of the detail document
DetailSave ==
    /\ pc = "detail_save"
    /\ db' = [db EXCEPT !.detail = @ \cup {mem.items[mem.idx]}]
    /\ LET pq == [perQuery(mem) EXCEPT !.detailItemsSaved = @ + 1]
       IN mem' = [setPerQuery(mem, pq) EXCEPT !.detailItemsSaved = @ + 1]
    /\ pc' = "detail_saved"
    /\ hist' = [hist EXCEPT !.page.saved = @ + 1]
    /\ UNCHANGED net
    /\ OrchUnchanged

\* the checkpoint after the upsert
DetailCheckpoint ==
    /\ pc = "detail_saved"
    /\ LET pq == [perQuery(mem) EXCEPT !.lastSlugProcessed = mem.items[mem.idx]]
           m1 == setPerQuery(mem, pq)
       IN /\ db' = [db EXCEPT !.state = persistState(@, m1,
                        [detailItemsSaved |-> mem.detailItemsSaved,
                         lastSlugProcessed |-> mem.items[mem.idx],
                         currentQuery |-> mem.queryKey])]
          /\ mem' = [m1 EXCEPT !.idx = @ + 1]
          /\ pc' = "item"
    /\ UNCHANGED <<net, hist>>
    /\ OrchUnchanged

\* an advance that leaves out the page after the one just handled
nextOffset_SkipsPage(m) == m.localOffset + 2 * ListLimit

\* localOffset += config.listLimit (line 505)
nextOffset(m) == m.localOffset + ListLimit

\* a page loop that ends after the first page it has handled
PageDone_LeavesLoop ==
    /\ pc = "item"
    /\ mem.idx > Len(mem.items)
    /\ LET next == nextOffset(mem)
           pq == [perQuery(mem) EXCEPT !.lastOffset = next]
           m1 == [setPerQuery(mem, pq) EXCEPT !.localOffset = next,
                                               !.items = <<>>, !.idx = 0,
                                               !.existingSlugSet = {}]
       IN /\ db' = [db EXCEPT !.state = persistState(@, m1,
                        [lastOffset |-> next, currentQuery |-> mem.queryKey])]
          /\ mem' = leaveQuery(m1)
          /\ pc' = afterQuery(m1)
    /\ hist' = [hist EXCEPT !.page = NoTally]
    /\ UNCHANGED net
    /\ OrchUnchanged

\* every item handled: advance the offset and checkpoint it
PageDone ==
    /\ pc = "item"
    /\ mem.idx > Len(mem.items)
    /\ LET next == nextOffset(mem)
           pq == [perQuery(mem) EXCEPT !.lastOffset = next]
           m1 == [setPerQuery(mem, pq) EXCEPT !.localOffset = next,
                                               !.items = <<>>, !.idx = 0,
                                               !.existingSlugSet = {}]
       IN /\ db' = [db EXCEPT !.state = persistState(@, m1,
                        [lastOffset |-> next, currentQuery |-> mem.queryKey])]
          /\ mem' = m1
          /\ pc' = "page"
    /\ hist' = [hist EXCEPT !.page = NoTally]
    /\ UNCHANGED net
    /\ OrchUnchanged

\* the process is terminated: everything in memory is lost
Crash ==
    /\ pc \notin {"down", "exited"}
    /\ pc' = "down"
    /\ mem' = NoMem
    /\ net' = NoNet
    /\ hist' = [hist EXCEPT !.startCompleted = FALSE, !.savedAtStart = {},
                            !.interrupted = FALSE, !.indexAtStart = 0,
                            !.listMeta = NoMeta, !.listItems = NoItems,
                            !.page = NoTally,
                            !.ckptAtStart = [k \in QueryKeys |-> 0]]
    /\ UNCHANGED db
    /\ OrchUnchanged

\* the configurations: every combination of the mode and the two skip flags,
\* and each mode with the forced-resume override and with a finite result window
Configs ==
    [multi : BOOLEAN, forceResume : {FALSE}, skipExistingDetails : BOOLEAN,
     detailOnlyIfMissing : BOOLEAN, listMaxResultWindow : {-1}]
    \cup [multi : BOOLEAN, forceResume : {TRUE}, skipExistingDetails : {FALSE},
          detailOnlyIfMissing : {FALSE}, listMaxResultWindow : {-1}]
    \cup [multi : BOOLEAN, forceResume : {FALSE}, skipExistingDetails : {TRUE},
          detailOnlyIfMissing : {FALSE}, listMaxResultWindow : {ListLimit}]

NoRetry == [phase |-> "off"]
NoAsset == [phase |-> "off"]

Init ==
    /\ cfg \in Configs
    /\ db = [state |-> NoState, list |-> {}, detail |-> {}, errors |-> <<>>]
    /\ pc = "down"
    /\ mem = NoMem
    /\ net = NoNet
    /\ hist = [runs |-> 0, fails |-> 0, startCompleted |-> FALSE,
               interrupted |-> FALSE, indexAtStart |-> 0, listMeta |-> NoMeta,
               listItems |-> NoItems, page |-> NoTally,
               savedAtStart |-> {}, ckptAtStart |-> [k \in QueryKeys |-> 0]]
    /\ rt = NoRetry
    /\ ast = NoAsset

Next ==
    \/ Start
    \/ NextQuery
    \/ Finish
    \/ WindowStop
    \/ PageTop
    \/ ListFetch
    \/ ListFailed
    \/ PageCheckpoint
    \/ ItemSkip
    \/ ItemRequest
    \/ DetailFetch
    \/ DetailFailed
    \/ AssetErrorLog
    \/ DetailSave
    \/ DetailCheckpoint
    \/ PageDone
    \/ Crash

Spec == Init /\ [][Next]_vars

(***************************************************************************)
(* requestWithRetry on its own: every sequence of attempt outcomes, for    *)
(* every configured number of attempts up to MaxRetries.                   *)
(***************************************************************************)
RetryContexts ==
    { [type |-> "list", offset |-> 0, slug |-> -1, query |-> "a"],
      [type |-> "detail", offset |-> ListLimit, slug |-> 1, query |-> ""] }

NoResult == [ok |-> FALSE, error |-> NoError, events |-> <<>>, errorDocs |-> <<>>]

RetryInputs ==
    UNION { { [phase |-> "ready", maxRetries |-> n, outs |-> o, context |-> c,
               result |-> NoResult] :
                o \in [1..n -> AttemptOutcomes], c \in RetryContexts } :
            n \in 1..MaxRetries }

IdleConfig ==
    [multi |-> FALSE, forceResume |-> FALSE, skipExistingDetails |-> FALSE,
     detailOnlyIfMissing |-> FALSE, listMaxResultWindow |-> -1]

IdleHist ==
    [runs |-> 0, fails |-> 0, startCompleted |-> FALSE,
               interrupted |-> FALSE, indexAtStart |-> 0, listMeta |-> NoMeta,
               listItems |-> NoItems, page |-> NoTally,
     savedAtStart |-> {}, ckptAtStart |-> [k \in QueryKeys |-> 0]]

InitRetry ==
    /\ cfg = IdleConfig
    /\ db = [state |-> NoState, list |-> {}, detail |-> {}, errors |-> <<>>]
    /\ pc = "down"
    /\ mem = NoMem
    /\ net = NoNet
    /\ hist = IdleHist
    /\ rt \in RetryInputs
    /\ ast = NoAsset

\* one call of requestWithRetry: what it did, and the error collection after it
RetryCall ==
    /\ rt.phase = "ready"
    /\ LET r == requestWithRetry(rt.outs, rt.context, rt.maxRetries)
       IN /\ rt' = [rt EXCEPT !.phase = "done", !.result = r]
          /\ db' = [db EXCEPT !.errors = @ \o r.errorDocs]
    /\ UNCHANGED <<cfg, pc, mem, net, hist, ast>>

NextRetry == RetryCall

SpecRetry == InitRetry /\ [][NextRetry]_vars

(***************************************************************************)
(* Text.  A string is the sequence of its atoms; an atom stands for a run  *)
(* of characters that the scanners never split:                            *)
(*   "h", "g"   a whole source URL, https://cdn.example/a and .../b        *)
(*   "H"        the first of them written HTTPS://CDN.EXAMPLE/a            *)
(*   "m"        the mirror base, config.s3BaseUrl followed by /            *)
(*   "x"        .png, characters that continue a URL; "k1".. uuid keys     *)
(*   " "        white space; "q" a quote; "<img" stands for <img src=" and *)
(*   "<a" for <a href=" ; ")" a closing bracket; "&amp;" the entity        *)
(***************************************************************************)
SchemeAtoms == {"h", "g", "H", "m"}
\* the atoms that start with lower-case http
LowerSchemeAtoms == {"h", "g", "m"}
\* [\s"'<>]: what ends a URL match
SeparatorAtoms == {" ", "q", "<img", "<a", ">"}
\* [)"'\]}>,;]: what sanitizeUrlCandidate strips from the end
TrailingAtoms == {")", "q", ">"}

U1 == <<"h">>
\* U1 is a textual prefix of U2
U2 == <<"h", "x">>
U3 == <<"g">>
UH == <<"H">>

\* the element of a one-element set: Only({ e : x \in {v} }) is e with x bound
\* to the value of v, as a statement sequence binds a const once
Only(set) == CHOOSE x \in set : TRUE

IsAt(text, part, i) ==
    /\ i >= 1
    /\ i + Len(part) - 1 <= Len(text)
    /\ \A j \in 1..Len(part) : text[i + j - 1] = part[j]

\* the first index at which part occurs in text, 0 if none
IndexOf(text, part) ==
    IF \E i \in 1..Len(text) : IsAt(text, part, i)
    THEN CHOOSE i \in 1..Len(text) :
            IsAt(text, part, i) /\ \A j \in 1..(i - 1) : ~IsAt(text, part, j)
    ELSE 0

Occurs(text, part) == IndexOf(text, part) # 0

\* String.prototype.replace with a string pattern: the first occurrence only
ReplaceFirst(text, part, by) ==
    Only({ IF i = 0 \/ part = <<>> THEN text
           ELSE SubSeq(text, 1, i - 1) \o by \o SubSeq(text, i + Len(part), Len(text))
           : i \in {IndexOf(text, part)} })

\* text.split(part).join(by): every occurrence, left to right
RECURSIVE SplitJoin(_, _, _)
SplitJoin(text, part, by) ==
    Only({ IF i = 0 \/ part = <<>> THEN text
           ELSE Only({ SubSeq(text, 1, i - 1) \o by \o SplitJoin(rest, part, by)
                       : rest \in {SubSeq(text, i + Len(part), Len(text))} })
           : i \in {IndexOf(text, part)} })

\* new URL(url).toString(): the scheme and host in lower case
normalizeAtom(a) == IF a = "H" THEN "h" ELSE a

normalizeUrl(url) == [i \in 1..Len(url) |-> normalizeAtom(url[i])]

\* /^https?:\/\//i
isHttpUrl(text) == text # <<>> /\ text[1] \in SchemeAtoms

\* String.startsWith("http")
startsWithHttp(text) == text # <<>> /\ text[1] \in LowerSchemeAtoms

\* String.includes("http")
includesHttp(text) == \E i \in 1..Len(text) : text[i] \in LowerSchemeAtoms

decodeHtmlEntities(text) == [i \in 1..Len(text) |-> IF text[i] = "&amp;" THEN "&" ELSE text[i]]

RECURSIVE stripTrailing(_)
stripTrailing(text) ==
    IF text # <<>> /\ text[Len(text)] \in TrailingAtoms
    THEN stripTrailing(SubSeq(text, 1, Len(text) - 1))
    ELSE text

\* <<>> stands for null
sanitizeUrlCandidate(value) ==
    LET candidate == stripTrailing(decodeHtmlEntities(value))
    IN IF isHttpUrl(candidate) THEN candidate ELSE <<>>

\* the end of the match of /https?:\/\/[^\s"'<>]+/ that starts at index i
RECURSIVE matchEnd(_, _)
matchEnd(text, i) ==
    IF i < Len(text) /\ text[i + 1] \notin SeparatorAtoms
    THEN matchEnd(text, i + 1)
    ELSE i

\* text.match(/https?:\/\/[^\s"'<>]+/gi), from index i on
RECURSIVE matchUrls(_, _)
matchUrls(text, i) ==
    IF i > Len(text) THEN <<>>
    ELSE IF text[i] \in SchemeAtoms
    THEN <<SubSeq(text, i, matchEnd(text, i))>> \o matchUrls(text, matchEnd(text, i) + 1)
    ELSE matchUrls(text, i + 1)

\* Array.from(new Set(list)): the first occurrence of each element, in order
RECURSIVE dedup(_)
dedup(list) ==
    IF list = <<>> THEN <<>>
    ELSE Only({ IF \E i \in 1..Len(front) : front[i] = list[Len(list)] THEN front
                ELSE Append(front, list[Len(list)])
                : front \in {dedup(SubSeq(list, 1, Len(list) - 1))} })

RECURSIVE dropEmpty(_)
dropEmpty(list) ==
    IF list = <<>> THEN <<>>
    ELSE IF list[1] = <<>> THEN dropEmpty(Tail(list))
    ELSE <<list[1]>> \o dropEmpty(Tail(list))

extractUrls(text) ==
    IF ~isHttpUrl(text) /\ ~includesHttp(text) THEN <<>>
    ELSE Only({ dedup(dropEmpty([i \in 1..Len(matches) |-> sanitizeUrlCandidate(matches[i])]))
                : matches \in {matchUrls(text, 1)} })

\* the captures of /<img[^>]+src=["']([^"']+)["']/gi, from index i on
RECURSIVE imgEnd(_, _)
imgEnd(text, i) ==
    IF i < Len(text) /\ text[i + 1] # "q" THEN imgEnd(text, i + 1) ELSE i

RECURSIVE matchImgSrc(_, _)
matchImgSrc(text, i) ==
    IF i >= Len(text) THEN <<>>
    ELSE IF text[i] = "<img" /\ text[i + 1] # "q"
              /\ imgEnd(text, i) < Len(text)
    THEN <<SubSeq(text, i + 1, imgEnd(text, i))>> \o matchImgSrc(text, imgEnd(text, i) + 2)
    ELSE matchImgSrc(text, i + 1)

(***************************************************************************)
(* The detail document.  Objects and arrays live in a heap and are held by *)
(* reference, so the asset log, the cache and the walk can share a record; *)
(* an object keeps its keys in insertion order, as Object.entries reports  *)
(* them.  Object 1 is detailData.                                          *)
(***************************************************************************)
Str(text) == [t |-> "string", s |-> text, r |-> 0]
Ref(id) == [t |-> "object", s |-> <<>>, r |-> id]
\* null, a number or a boolean
Null == [t |-> "null", s |-> <<>>, r |-> 0]
Undefined == [t |-> "undefined", s |-> <<>>, r |-> 0]

Obj(keys, vals) == [arr |-> FALSE, keys |-> keys, vals |-> vals]
Arr(vals) == [arr |-> TRUE, keys |-> <<>>, vals |-> vals]

Root == 1

Truthy(v) == v.t = "object" \/ (v.t = "string" /\ v.s # <<>>)

KeyIndex(nodeKeys, key) ==
    Only({ IF \E i \in 1..Len(keys) : keys[i] = key
           THEN CHOOSE i \in 1..Len(keys) : keys[i] = key
           ELSE 0 : keys \in {nodeKeys} })

\* node[key]
Get(heap, id, key) ==
    Only({ Only({ IF i = 0 THEN Undefined ELSE node.vals[i] : i \in {KeyIndex(node.keys, key)} })
           : node \in {heap[id]} })

\* v?.[key]
GetIn(heap, v, key) == IF v.t = "object" THEN Get(heap, v.r, key) ELSE Undefined

\* node[key] = v: a new key goes last
Put(heap, id, key, v) ==
    Only({ Only({ IF i = 0
                  THEN [h EXCEPT ![id] = [@ EXCEPT !.keys = Append(@, key),
                                                   !.vals = Append(@, v)]]
                  ELSE [h EXCEPT ![id] = [@ EXCEPT !.vals = [@ EXCEPT ![i] = v]]]
                  : i \in {KeyIndex(h[id].keys, key)} })
           : h \in {heap} })

\* array[i] = v
PutAt(heap, id, i, v) == [heap EXCEPT ![id] = [@ EXCEPT !.vals = [@ EXCEPT ![i] = v]]]

\* array.push(v)
Push(heap, id, v) == [heap EXCEPT ![id] = [@ EXCEPT !.vals = Append(@, v)]]

Word(w) == Str(<<w>>)

\* the uuids of crypto.randomUUID(), in the order they are drawn
Uuids == <<"k1", "k2", "k3", "k4", "k5", "k6", "k7", "k8", "k9">>

\* path.extname of the URL's path
getExtensionFromUrl(url) ==
    LET n == normalizeUrl(url)
    IN IF n # <<>> /\ n[Len(n)] = "x" THEN <<"x">> ELSE <<>>

\* prefix/type/slug/uuid.ext, the uuid being the n-th one drawn
buildNewKey(url, n) == <<Uuids[n]>> \o getExtensionFromUrl(url)

NoFailure == [op |-> "none", url |-> <<>>]

\* storage.downloadToFile: null (<<>>) when downloads are disabled; axios
\* rejects what is not an absolute http URL
downloadToFile(config, env, url, destPath) ==
    IF ~config.assetDownloadEnabled THEN [threw |-> FALSE, path |-> <<>>]
    ELSE IF ~isHttpUrl(url) \/ (env.op = "download" /\ env.url = url)
    THEN [threw |-> TRUE, path |-> <<>>]
    ELSE [threw |-> FALSE, path |-> destPath]

\* storage.uploadToS3: null (<<>>) when S3 is disabled
uploadToS3(config, env, url, key) ==
    IF ~config.s3Enabled THEN [threw |-> FALSE, s3Url |-> <<>>]
    ELSE IF env.op = "upload" /\ env.url = url THEN [threw |-> TRUE, s3Url |-> <<>>]
    ELSE [threw |-> FALSE, s3Url |-> <<"m">> \o key]

NewRecord(kind, sourceUrl, finalKey, status, s3Url, errorMessage) ==
    Obj(<<"kind", "slug", "sourceUrl", "key", "localPath", "s3Url", "status",
          "errorMessage", "errorStatus">>,
        <<Word(kind), Word("slug"), Str(sourceUrl), Str(finalKey),
          Str(<<"dir">> \o finalKey), s3Url, Word(status), errorMessage, Null>>)

\* S is the memory of one processDetailAssets call: the heap, the cache, the
\* uuids drawn and the requests sent so far; a record is its heap id, 0 for null
\* one request of the pass, as the network sees it
Request(op, sourceUrl, finalKey) ==
    [op |-> op, url |-> normalizeUrl(sourceUrl), key |-> finalKey, source |-> sourceUrl]

\* a guard without the test of the mirror base
mirrorSkipped_NoBaseTest(config, sourceUrl) ==
    sourceUrl = <<>> \/ ~config.assetSyncEnabled

\* lines 68-75 of mirrorUrl: nothing to mirror, mirroring disabled, or the
\* normalized URL already starts with the mirror base
mirrorSkipped(config, sourceUrl) ==
    \/ sourceUrl = <<>>
    \/ ~config.assetSyncEnabled
    \/ normalizeUrl(sourceUrl)[1] = "m"

\* a catch of the download that falls through to the upload
downloadThrew_FallsThrough(kind, sourceUrl, finalKey) ==
    [rec |-> NewRecord(kind, sourceUrl, finalKey, "failed", Null, Word("download failed")),
     upload |-> TRUE, resultUrl |-> sourceUrl]

\* lines 100-111: the catch of the download; upload tells whether an upload
\* request is sent
downloadThrew(kind, sourceUrl, finalKey) ==
    [rec |-> NewRecord(kind, sourceUrl, finalKey, "failed", Null, Word("download failed")),
     upload |-> FALSE, resultUrl |-> sourceUrl]

\* an upload whose catch still returns the mirror URL
afterDownload_MirrorUrlOnFailure(config, kind, sourceUrl, finalKey, downloadedPath, up) ==
    IF downloadedPath # <<>> /\ config.s3Enabled
    THEN IF up.threw
         THEN [rec |-> NewRecord(kind, sourceUrl, finalKey, "failed", Null,
                                 Word("upload failed")),
               upload |-> TRUE, resultUrl |-> <<"m">> \o finalKey]
         ELSE [rec |-> NewRecord(kind, sourceUrl, finalKey, "uploaded", Str(up.s3Url), Null),
               upload |-> TRUE, resultUrl |-> up.s3Url]
    ELSE [rec |-> NewRecord(kind, sourceUrl, finalKey,
                            IF downloadedPath # <<>> THEN "downloaded" ELSE "skipped",
                            Null, Null),
          upload |-> FALSE, resultUrl |-> sourceUrl]

\* lines 113-139: after the download returned; up is what uploadToS3 does
afterDownload(config, kind, sourceUrl, finalKey, downloadedPath, up) ==
    IF downloadedPath # <<>> /\ config.s3Enabled
    THEN IF up.threw
         THEN [rec |-> NewRecord(kind, sourceUrl, finalKey, "failed", Null,
                                 Word("upload failed")),
               upload |-> TRUE, resultUrl |-> sourceUrl]
         ELSE [rec |-> NewRecord(kind, sourceUrl, finalKey, "uploaded", Str(up.s3Url), Null),
               upload |-> TRUE, resultUrl |-> up.s3Url]
    ELSE [rec |-> NewRecord(kind, sourceUrl, finalKey,
                            IF downloadedPath # <<>> THEN "downloaded" ELSE "skipped",
                            Null, Null),
          upload |-> FALSE, resultUrl |-> sourceUrl]

mirrorUrl(config, S, sourceUrl, kind) ==
    LET none == [S |-> S, record |-> 0, resultUrl |-> sourceUrl]
        normalizedUrl == normalizeUrl(sourceUrl)
        finalKey == buildNewKey(sourceUrl, S.nextKey)
        localPath == <<"dir">> \o finalKey
        dl == downloadToFile(config, S.env, normalizedUrl, localPath)
        up == uploadToS3(config, S.env, normalizedUrl, finalKey)
        id == Len(S.heap) + 1
        sent == IF config.assetDownloadEnabled
                THEN Append(S.io, Request("download", sourceUrl, finalKey))
                ELSE S.io
    IN IF mirrorSkipped(config, sourceUrl) THEN none
       ELSE Only({ [S |-> [S EXCEPT !.heap = Append(@, out.rec),
                                    !.nextKey = @ + 1,
                                    !.io = IF out.upload
                                           THEN Append(sent, Request("upload", sourceUrl,
                                                                     finalKey))
                                           ELSE sent],
                    record |-> id, resultUrl |-> out.resultUrl]
                   : out \in { IF dl.threw
                               THEN downloadThrew(kind, sourceUrl, finalKey)
                               ELSE afterDownload(config, kind, sourceUrl, finalKey,
                                                  dl.path, up) } })

CacheIndex(cache, sourceUrl) ==
    IF \E i \in 1..Len(cache) : cache[i].sourceUrl = sourceUrl
    THEN CHOOSE i \in 1..Len(cache) : cache[i].sourceUrl = sourceUrl
    ELSE 0

\* a lookup that sends the download request before it consults the cache
mirrorUrlCached_RequestFirst(config, S, sourceUrl, kind) ==
    LET i == CacheIndex(S.cache, sourceUrl)
    IN IF i # 0
       THEN [S |-> [S EXCEPT !.io = Append(@, Request("download", sourceUrl,
                                                     buildNewKey(sourceUrl, S.nextKey)))],
             record |-> S.cache[i].record, resultUrl |-> S.cache[i].resultUrl]
       ELSE Only({ [result EXCEPT !.S.cache =
                       Append(@, [sourceUrl |-> sourceUrl, record |-> result.record,
                                  resultUrl |-> result.resultUrl])]
                   : result \in {mirrorUrl(config, S, sourceUrl, kind)} })

mirrorUrlCached(config, S, sourceUrl, kind) ==
    LET i == CacheIndex(S.cache, sourceUrl)
    IN IF i # 0
       THEN [S |-> S, record |-> S.cache[i].record, resultUrl |-> S.cache[i].resultUrl]
       ELSE Only({ [result EXCEPT !.S.cache =
                       Append(@, [sourceUrl |-> sourceUrl, record |-> result.record,
                                  resultUrl |-> result.resultUrl])]
                   : result \in {mirrorUrl(config, S, sourceUrl, kind)} })

\* detailData.extra_data, created when missing
withExtraData(heap) ==
    IF Truthy(Get(heap, Root, "extra_data")) THEN heap
    ELSE Put(Append(heap, Obj(<<>>, <<>>)), Root, "extra_data", Ref(Len(heap) + 1))

\* detailData.extra_data.asset_sync, created when missing
withAssetSync(heap) ==
    LET extra == Get(heap, Root, "extra_data").r
    IN IF Truthy(Get(heap, extra, "asset_sync")) THEN heap
       ELSE Put(heap \o <<Arr(<<>>),
                          Obj(<<"files", "lastSyncedAt">>, <<Ref(Len(heap) + 1), Null>>)>>,
                extra, "asset_sync", Ref(Len(heap) + 2))

addAssetLog(heap, record) ==
    Only({ LET sync == Get(h, Get(h, Root, "extra_data").r, "asset_sync").r
               files == Get(h, sync, "files").r
           IN Put(Push(h, files, Ref(record)), sync, "lastSyncedAt", Word("now"))
           : h \in { Only({ withAssetSync(h1) : h1 \in {withExtraData(heap)} }) } })

\* const { record, resultUrl } = await mirrorUrlCached(...);
\* if (record) addAssetLog(detailData, record);
mirrorAndLog(config, S, sourceUrl, kind) ==
    Only({ IF m.record # 0
           THEN [m EXCEPT !.S.heap = addAssetLog(@, m.record)]
           ELSE m
           : m \in {mirrorUrlCached(config, S, sourceUrl, kind)} })

(***************************************************************************)
(* The targeted passes and the deep scan, each from S to S.                *)
(***************************************************************************)
\* if (resultUrl && resultUrl !== sourceUrl)
changed(m, sourceUrl) == m.resultUrl # <<>> /\ m.resultUrl # sourceUrl

syncLocation(config, S, location, kind) ==
    LET sourceUrl == GetIn(S.heap, location, "s3_http_url").s
    IN IF ~Truthy(location) \/ ~Truthy(GetIn(S.heap, location, "s3_http_url")) THEN S
       ELSE Only({ IF changed(m, sourceUrl)
                   THEN [m.S EXCEPT !.heap =
                            Put(Put(@, location.r, "original_s3_http_url", Str(sourceUrl)),
                                location.r, "s3_http_url", Str(m.resultUrl))]
                   ELSE m.S
                   : m \in {mirrorAndLog(config, S, sourceUrl, kind)} })

\* the sibling field
Original(field) ==
    CASE field = "url" -> "url_original"
      [] field = "vanillajs" -> "vanillajs_original"
      [] field = "project_template" -> "project_template_original"

syncSimpleUrlField(config, S, container, field, kind) ==
    LET value == GetIn(S.heap, container, field)
        sourceUrl == value.s
    IN IF ~Truthy(container) \/ ~Truthy(value) THEN S
       ELSE IF value.t # "string" \/ ~startsWithHttp(sourceUrl) THEN S
       ELSE Only({ IF changed(m, sourceUrl)
                   THEN [m.S EXCEPT !.heap =
                            Put(Put(@, container.r, Original(field), Str(sourceUrl)),
                                container.r, field, Str(m.resultUrl))]
                   ELSE m.S
                   : m \in {mirrorAndLog(config, S, sourceUrl, kind)} })

\* the loop of syncDescriptionImages over the matches, from the i-th on
RECURSIVE descriptionFrom(_, _, _, _, _)
descriptionFrom(config, S, matches, i, updated) ==
    IF i > Len(matches) THEN [S |-> S, updated |-> updated]
    ELSE Only({ Only({ descriptionFrom(config, m.S, matches, i + 1, text)
                       : text \in { IF changed(m, matches[i])
                                    THEN ReplaceFirst(updated, matches[i], m.resultUrl)
                                    ELSE updated } })
                : m \in {mirrorAndLog(config, S, matches[i], "description_image")} })

syncDescriptionImages(config, S) ==
    LET description == Get(S.heap, Root, "description")
    IN IF ~Truthy(description) THEN S
       ELSE Only({ IF matches = <<>> THEN S
                   ELSE Only({ [r.S EXCEPT !.heap = Put(@, Root, "description", Str(r.updated))]
                               : r \in {descriptionFrom(config, S, matches, 1, description.s)} })
                   : matches \in {matchImgSrc(description.s, 1)} })

IsArray(heap, v) == v.t = "object" /\ heap[v.r].arr

RECURSIVE attachmentsFrom(_, _, _, _)
attachmentsFrom(config, S, id, i) ==
    IF i > Len(S.heap[id].vals) THEN S
    ELSE LET attachment == S.heap[id].vals[i]
         IN Only({ attachmentsFrom(config, S1, id, i + 1)
                   : S1 \in { IF attachment.t # "object" THEN S
                              ELSE IF Truthy(GetIn(S.heap, attachment, "s3_http_url"))
                              THEN syncLocation(config, S, attachment, "attachment")
                              ELSE IF Truthy(GetIn(S.heap, attachment, "url"))
                              THEN syncSimpleUrlField(config, S, attachment, "url",
                                                      "attachment")
                              ELSE S } })

syncAttachments(config, S) ==
    LET attachments == Get(S.heap, Root, "attachments")
    IN IF ~IsArray(S.heap, attachments) THEN S
       ELSE attachmentsFrom(config, S, attachments.r, 1)

\* the body of the loop of syncPrivateAttachments for the i-th element
syncPrivateAttachment(config, S, id, i) ==
    LET sourceUrl == S.heap[id].vals[i].s
    IN IF S.heap[id].vals[i].t # "string" \/ ~startsWithHttp(sourceUrl) THEN S
       ELSE Only({ IF changed(m, sourceUrl)
                   THEN [m.S EXCEPT !.heap = PutAt(@, id, i, Str(m.resultUrl))]
                   ELSE m.S
                   : m \in {mirrorAndLog(config, S, sourceUrl, "private_attachment")} })

RECURSIVE privateFrom(_, _, _, _)
privateFrom(config, S, id, i) ==
    IF i > Len(S.heap[id].vals) THEN S
    ELSE Only({ privateFrom(config, S1, id, i + 1)
                : S1 \in {syncPrivateAttachment(config, S, id, i)} })

syncPrivateAttachments(config, S) ==
    LET attachments == Get(S.heap, Root, "private_attachments")
    IN IF ~IsArray(S.heap, attachments) THEN S
       ELSE privateFrom(config, S, attachments.r, 1)

projectData(heap) == GetIn(heap, Get(heap, Root, "extra_data"), "project_based_problem_data")

syncProjectBasedAssets(config, S) ==
    LET data == projectData(S.heap)
    IN IF ~Truthy(data) THEN S
       ELSE Only({ Only({ syncSimpleUrlField(config, S2, Ref(Root), "project_template",
                                             "project_template")
                          : S2 \in {syncLocation(config, S1,
                                        GetIn(S1.heap, data, "problem_stub_s3_location"),
                                        "problem_stub")} })
                   : S1 \in {syncLocation(config, S,
                                 GetIn(S.heap, data, "problem_solution_s3_location"),
                                 "problem_solution")} })

syncUixAssets(config, S) ==
    IF ~Truthy(Get(S.heap, Root, "sample_solutions")) THEN S
    ELSE Only({ IF Truthy(Get(S1.heap, Root, "stubs"))
                THEN syncSimpleUrlField(config, S1, Get(S1.heap, Root, "stubs"),
                                        "vanillajs", "stub_vanillajs")
                ELSE S1
                : S1 \in {syncSimpleUrlField(config, S, Get(S.heap, Root, "sample_solutions"),
                                             "vanillajs", "sample_solution_vanillajs")} })

\* the loop of replaceUrlsInText over the extracted URLs, from the i-th on
RECURSIVE replaceFrom(_, _, _, _, _)
replaceFrom(config, S, urls, i, updated) ==
    IF i > Len(urls) THEN [S |-> S, updated |-> updated]
    ELSE Only({ Only({ replaceFrom(config, m.S, urls, i + 1, text)
                       : text \in { IF changed(m, urls[i])
                                    THEN SplitJoin(updated, urls[i], m.resultUrl)
                                    ELSE updated } })
                : m \in {mirrorAndLog(config, S, urls[i], "deep_scan")} })

replaceUrlsInText(config, S, text) ==
    Only({ replaceFrom(config, S, urls, 1, text) : urls \in {extractUrls(text)} })

\* a walk with no exclusion
isAvatarOfUser_Never(heap, id, key) == FALSE

\* the guard that leaves an author's avatar alone
isAvatarOfUser(heap, id, key) ==
    /\ key \in {"avatar_url", "avatar"}
    /\ \/ Truthy(Get(heap, id, "username"))
       \/ Truthy(Get(heap, id, "resource_uri"))
       \/ Truthy(Get(heap, id, "full_name"))

\* how many containers a deep scan may descend into before it is cut off
MaxDescents == 20

RECURSIVE walk(_, _, _)
RECURSIVE walkArray(_, _, _, _)
RECURSIVE walkEntries(_, _, _, _, _)

\* for (let i = 0; i < node.length; i += 1): the length is read at every turn
walkArray(config, S, id, i) ==
    IF i > Len(S.heap[id].vals) THEN S
    ELSE LET value == S.heap[id].vals[i]
         IN Only({ walkArray(config, S1, id, i + 1)
                   : S1 \in { IF value.t = "string"
                              THEN Only({ [r.S EXCEPT !.heap = PutAt(@, id, i, Str(r.updated))]
                                          : r \in {replaceUrlsInText(config, S, value.s)} })
                              ELSE IF value.t = "object" THEN walk(config, S, value.r)
                              ELSE S } })

\* for (const [key, value] of Object.entries(node)): entries is the list of
\* keys and values the node had when the loop began
walkEntries(config, S, id, entries, i) ==
    IF i > Len(entries.keys) THEN S
    ELSE LET key == entries.keys[i]
             value == entries.vals[i]
         IN Only({ walkEntries(config, S1, id, entries, i + 1)
                   : S1 \in { IF isAvatarOfUser(S.heap, id, key) THEN S
                              ELSE IF value.t = "string"
                              THEN Only({ [r.S EXCEPT !.heap = Put(@, id, key, Str(r.updated))]
                                          : r \in {replaceUrlsInText(config, S, value.s)} })
                              ELSE IF value.t = "object" THEN walk(config, S, value.r)
                              ELSE S } })

\* a walk that does not consult the visited set
walk_NoVisited(config, S, id) ==
    IF Len(S.descents) >= MaxDescents THEN S
    ELSE Only({ IF S1.heap[id].arr THEN walkArray(config, S1, id, 1)
                ELSE walkEntries(config, S1, id, S1.heap[id], 1)
                : S1 \in {[S EXCEPT !.visited = @ \cup {id},
                                    !.descents = Append(@, id)]} })

\* walk(node) of deepScanUrls; descents lists the containers descended into,
\* and the walk is cut off after MaxDescents of them
walk(config, S, id) ==
    IF id \in S.visited \/ Len(S.descents) >= MaxDescents THEN S
    ELSE Only({ IF S1.heap[id].arr THEN walkArray(config, S1, id, 1)
                ELSE walkEntries(config, S1, id, S1.heap[id], 1)
                : S1 \in {[S EXCEPT !.visited = @ \cup {id},
                                    !.descents = Append(@, id)]} })

deepScanUrls(config, S) ==
    IF ~config.assetScanAllUrls THEN S
    ELSE walk(config, [S EXCEPT !.visited = {}], Root)

PROJECT_BASED_TYPES == {"PBT", "PBD", "PFE", "PFS"}

\* an order of the passes with the deep scan first
passes_DeepFirst(heap) ==
    LET problemType == Get(heap, Root, "problem_type").s
    IN <<"deep">>
       \o (IF (problemType # <<>> /\ problemType[1] \in PROJECT_BASED_TYPES)
              \/ Truthy(projectData(heap))
           THEN <<"project", "description", "attachments">> ELSE <<>>)
       \o (IF problemType = <<"UIX">>
           THEN <<"uix", "description", "attachments">> ELSE <<>>)
       \o <<"private">>

\* the passes processDetailAssets runs on a document, in order
passes(heap) ==
    LET problemType == Get(heap, Root, "problem_type").s
    IN (IF (problemType # <<>> /\ problemType[1] \in PROJECT_BASED_TYPES)
           \/ Truthy(projectData(heap))
        THEN <<"project", "description", "attachments">> ELSE <<>>)
       \o (IF problemType = <<"UIX">>
           THEN <<"uix", "description", "attachments">> ELSE <<>>)
       \o <<"private", "deep">>

(***************************************************************************)
(* processDetailAssets on one fetched detail document, one step per pass.  *)
(***************************************************************************)
\* how many of a document's fields carry URLs
MaxFields == 2

DescriptionOptions ==
    { <<>>,
      <<"<img", "h", "q", ">">>,
      <<"<a", "h", "q", ">", "<img", "h", "q", ">">>,
      <<"<img", "h", "q", ">", "<img", "h", "x", "q", ">">>,
      <<"<img", "rel", "q", ">">> }

NotesOptions ==
    { <<>>,
      <<"h", " ", "h", "x">>,
      <<"see", " ", "H", ")">>,
      <<"g", "&amp;", "x", " ", "m", "k9">> }

FieldOptions ==
    [description : DescriptionOptions, project_template : {<<>>, U1},
     solution : {"none", "first", "last"}, attachment : {"none", "location", "url"},
     private : {<<>>, U1}, uix : BOOLEAN, avatar : {<<>>, U1}, notes : NotesOptions]

Used(b) == IF b THEN 1 ELSE 0

FieldsUsed(o) ==
    Used(o.description # <<>>) + Used(o.project_template # <<>>)
    + Used(o.solution # "none") + Used(o.attachment # "none") + Used(o.private # <<>>)
    + Used(o.uix) + Used(o.avatar # <<>>) + Used(o.notes # <<>>)

\* obj[key] = node, for a node not yet in the heap
PutNew(heap, id, key, node) ==
    Only({ Put(Append(h, node), id, key, Ref(Len(h) + 1)) : h \in {heap} })

\* array.push(node), for a node not yet in the heap
PushNew(heap, id, node) ==
    Only({ Push(Append(h, node), id, Ref(Len(h) + 1)) : h \in {heap} })

WithExtraData(heap) ==
    Only({ Only({ PutNew(h2, Len(h2), "problem_solution_s3_location",
                         Obj(<<"s3_http_url", "object_key">>, <<Str(U1), Word("key")>>))
                  : h2 \in {PutNew(h1, Len(h1), "project_based_problem_data", Obj(<<>>, <<>>))} })
           : h1 \in {PutNew(heap, Root, "extra_data", Obj(<<>>, <<>>))} })

\* the detail document the API returned
Detail(problemType, o) ==
    LET h0 == <<Obj(<<"problem_type", "slug">>, <<Word(problemType), Word("slug")>>)>>
        h1 == IF o.description # <<>> THEN Put(h0, Root, "description", Str(o.description))
              ELSE h0
        h2 == IF o.solution = "first" THEN WithExtraData(h1) ELSE h1
        h3 == IF o.project_template # <<>>
              THEN Put(h2, Root, "project_template", Str(o.project_template)) ELSE h2
        h4 == IF o.attachment = "none" THEN h3
              ELSE PushNew(PutNew(h3, Root, "attachments", Arr(<<>>)), Len(h3) + 1,
                            Obj(<<IF o.attachment = "url" THEN "url" ELSE "s3_http_url">>,
                               <<Str(U1)>>))
        h5 == IF o.private = <<>> THEN h4
              ELSE PutNew(h4, Root, "private_attachments", Arr(<<Str(o.private)>>))
        h6 == IF ~o.uix THEN h5
              ELSE PutNew(PutNew(h5, Root, "sample_solutions",
                                 Obj(<<"vanillajs">>, <<Str(U1)>>)),
                          Root, "stubs", Obj(<<"vanillajs">>, <<Str(U1)>>))
        h7 == IF o.avatar = <<>> THEN h6
              ELSE PutNew(h6, Root, "author",
                          Obj(<<"username", "avatar_url">>, <<Word("bob"), Str(o.avatar)>>))
        h8 == IF o.notes = <<>> THEN h7 ELSE Put(h7, Root, "notes", Str(o.notes))
    IN IF o.solution = "last" THEN WithExtraData(h8) ELSE h8

ProblemTypes == {"PBT", "UIX", "MCQ"}

Details == { Detail(t, o) : t \in ProblemTypes,
                            o \in { f \in FieldOptions : FieldsUsed(f) <= MaxFields } }

AssetConfigs ==
    { [assetSyncEnabled |-> TRUE, assetScanAllUrls |-> TRUE,
       assetDownloadEnabled |-> TRUE, s3Enabled |-> TRUE],
      [assetSyncEnabled |-> TRUE, assetScanAllUrls |-> FALSE,
       assetDownloadEnabled |-> TRUE, s3Enabled |-> TRUE],
      [assetSyncEnabled |-> TRUE, assetScanAllUrls |-> TRUE,
       assetDownloadEnabled |-> TRUE, s3Enabled |-> FALSE],
      [assetSyncEnabled |-> TRUE, assetScanAllUrls |-> TRUE,
       assetDownloadEnabled |-> FALSE, s3Enabled |-> TRUE],
      [assetSyncEnabled |-> FALSE, assetScanAllUrls |-> TRUE,
       assetDownloadEnabled |-> TRUE, s3Enabled |-> TRUE] }

\* the one request of the pass that fails, if any
Failures == {NoFailure} \cup [op : {"download", "upload"}, url : {U1, U2}]

InitAsset ==
    /\ cfg \in AssetConfigs
    /\ db = [state |-> NoState, list |-> {}, detail |-> {}, errors |-> <<>>]
    /\ pc = "down"
    /\ mem = NoMem
    /\ net = NoNet
    /\ hist = IdleHist
    /\ rt = NoRetry
    /\ \E detail \in Details, env \in Failures :
          ast = [phase |-> "fetched", input |-> detail, heap |-> detail, cache |-> <<>>,
                 nextKey |-> 1, io |-> <<>>, env |-> env, visited |-> {}, todo |-> <<>>,
                 descents |-> <<>>]

AssetUnchanged == UNCHANGED <<cfg, db, pc, mem, net, hist, rt>>

\* processDetailAssets is entered: nothing to do when asset sync is disabled
ProcessDetailAssets ==
    /\ ast.phase = "fetched"
    /\ ast' = IF ~cfg.assetSyncEnabled THEN [ast EXCEPT !.phase = "done"]
              ELSE [ast EXCEPT !.phase = "passes", !.todo = passes(ast.heap)]
    /\ AssetUnchanged

\* one pass has run: on to the next, the deep scan being the last
afterPass(S) ==
    [S EXCEPT !.todo = Tail(@), !.phase = IF Len(S.todo) = 1 THEN "done" ELSE "passes"]

Pass(name) == ast.phase = "passes" /\ ast.todo # <<>> /\ Head(ast.todo) = name

SyncProjectBasedAssets ==
    /\ Pass("project")
    /\ ast' = afterPass(syncProjectBasedAssets(cfg, ast))
    /\ AssetUnchanged

SyncDescriptionImages ==
    /\ Pass("description")
    /\ ast' = afterPass(syncDescriptionImages(cfg, ast))
    /\ AssetUnchanged

SyncAttachments ==
    /\ Pass("attachments")
    /\ ast' = afterPass(syncAttachments(cfg, ast))
    /\ AssetUnchanged

SyncUixAssets ==
    /\ Pass("uix")
    /\ ast' = afterPass(syncUixAssets(cfg, ast))
    /\ AssetUnchanged

SyncPrivateAttachments ==
    /\ Pass("private")
    /\ ast' = afterPass(syncPrivateAttachments(cfg, ast))
    /\ AssetUnchanged

DeepScanUrls ==
    /\ Pass("deep")
    /\ ast' = afterPass(deepScanUrls(cfg, ast))
    /\ AssetUnchanged

NextAsset ==
    \/ ProcessDetailAssets
    \/ SyncProjectBasedAssets
    \/ SyncDescriptionImages
    \/ SyncAttachments
    \/ SyncUixAssets
    \/ SyncPrivateAttachments
    \/ DeepScanUrls

SpecAsset == InitAsset /\ [][NextAsset]_vars

(***************************************************************************)
(* Properties of the orchestrator.                                         *)
(***************************************************************************)
\* the persisted progress record of a query
persisted(q) == db.state.multiQuery.perQuery[q]

\* a step that issues a list request
ListRequestIssued == net'.list > net.list

\* C1: a run started on a SyncState whose status is `completed`, without the
\* forced-resume override, issues no list request and no detail request (in
\* single-query mode, and in multi-query mode after every query has finished).
C1_IdempotentRerun ==
    (hist.startCompleted /\ ~cfg.forceResume) => (net.list = 0 /\ net.detail = 0)

\* C2: without the forced-resume override, no list request is issued for a
\* query whose persisted per-query status is `completed`.
C2_CompletedNeverReentered ==
    [][ (ListRequestIssued /\ ~cfg.forceResume)
            => persisted(mem.queryKey).status # "completed" ]_vars

\* C3: the first list request of a run is at the offset that was checkpointed for
\* its query when the run started (0 if none), and no list request is issued at
\* an offset below the persisted lastOffset of its query.
C3_ResumeAtCheckpoint ==
    [][ ListRequestIssued =>
            /\ net'.last.offset >= persisted(net'.last.query).lastOffset
            /\ (net.list = 0 => net'.last.offset = hist.ckptAtStart[net'.last.query]) ]_vars

\* a restarted run whose first list request is at a checkpointed offset above 0
C3_Witness ==
    /\ hist.runs = 2
    /\ net.list = 1
    /\ net.last.kind = "list"
    /\ net.last.offset = ListLimit
    /\ hist.ckptAtStart[net.last.query] = ListLimit

\* the positions of runQuery between counting a detail request and the
\* checkpoint after the upsert of its document
DetailPcs == {"detail_fetch", "detail_failed", "asset_error", "detail_save", "detail_saved"}

\* no detail request, and no count of one, for an item saved before the run started
NoRefetchOfSaved ==
    /\ net.last.kind = "detail" => net.last.slug \notin hist.savedAtStart
    /\ pc \in DetailPcs => mem.items[mem.idx] \notin hist.savedAtStart

\* C4 as stated: in every configuration of the two skip flags, a restarted run
\* issues no detail request for, and does not count again, an item whose detail
\* record was saved before the interruption.
C4_NoRefetchAnyFlags ==
    ~cfg.forceResume => NoRefetchOfSaved

\* C4, amended: the same when skip-existing or only-fetch-missing is set.
C4_NoRefetchWhenSkipping ==
    (cfg.skipExistingDetails \/ cfg.detailOnlyIfMissing) => NoRefetchOfSaved

\* a restarted run, skipping, that fetches an item of a page another item of
\* which was saved before the interruption
C4_Witness ==
    /\ cfg.skipExistingDetails \/ cfg.detailOnlyIfMissing
    /\ hist.runs = 2
    /\ pc = "detail_fetch"
    /\ \E i \in 1..Len(mem.items) : mem.items[i] \in hist.savedAtStart

\* the offsets of the pages below an offset
PageOffsetsBelow(offset) == {o \in 0..offset : o % ListLimit = 0 /\ o < offset}

\* an item the persisted state accounts for: its detail record is saved (fetched
\* now, or found and skipped), or its failed detail request is recorded
Handled(slug) ==
    \/ slug \in db.detail
    \/ \E i \in 1..Len(db.errors) :
            db.errors[i].context.type = "detail" /\ db.errors[i].context.slug = slug

\* C5: in every persisted state, every item of every page below a query's
\* persisted lastOffset is saved, skipped or recorded as failed.
C5_OffsetPastHandledPagesOnly ==
    \A q \in QueryKeys :
        \A o \in PageOffsetsBelow(persisted(q).lastOffset) :
            \A i \in 1..Len(itemsWithSlug(PageItems(q, o))) :
                Handled(itemsWithSlug(PageItems(q, o))[i])

\* after an interruption: a page behind the checkpointed offset, one item of
\* which failed and has no detail record
C5_Witness ==
    /\ pc = "down"
    /\ \E q \in QueryKeys :
          /\ persisted(q).lastOffset >= ListLimit
          /\ \E i \in 1..Len(PageItems(q, 0)) : PageItems(q, 0)[i] \notin db.detail

(***************************************************************************)
(* Properties of requestWithRetry.                                         *)
(***************************************************************************)
CountEvents(events, kind) == Cardinality({i \in 1..Len(events) : events[i].e = kind})

AlwaysFails(r) == \A k \in 1..r.maxRetries : ~r.outs[k].ok

\* C6: an operation that fails on every attempt is invoked exactly maxRetries
\* times; then exactly one SyncError is written, with the context and the last
\* error's message and status, and that error is raised.
C6_RetryExhaustion ==
    (rt.phase = "done" /\ AlwaysFails(rt)) =>
        LET r == rt.result
            last == rt.outs[rt.maxRetries]
        IN /\ CountEvents(r.events, "call") = rt.maxRetries
           /\ CountEvents(r.events, "insert") = 1
           /\ Len(db.errors) = 1
           /\ db.errors[1].context = rt.context
           /\ db.errors[1].message = last.message
           /\ db.errors[1].status = last.status
           /\ ~r.ok
           /\ r.error = last
           /\ r.events[Len(r.events)] = [e |-> "throw"]
           /\ r.events[Len(r.events) - 1] = [e |-> "insert"]

\* three failing attempts, rate-limited and not, have been made
C6_Witness ==
    /\ rt.phase = "done"
    /\ rt.maxRetries = MaxRetries
    /\ AlwaysFails(rt)
    /\ rt.outs[1].status = 429
    /\ rt.outs[MaxRetries].status = 500

(***************************************************************************)
(* Properties of the asset pass, under SpecAsset.                          *)
(***************************************************************************)
\* extra_data.asset_sync.files as the document holds it: the ids of the
\* records, one per element
assetLog(heap) ==
    LET extra == Get(heap, Root, "extra_data")
        files == GetIn(heap, GetIn(heap, extra, "asset_sync"), "files")
    IN IF files.t = "object"
       THEN [i \in 1..Len(heap[files.r].vals) |-> heap[files.r].vals[i].r]
       ELSE <<>>

statusOf(heap, record) == Get(heap, record, "status").s

\* the URLs the pass mirrored, each with the record made for it
Mirrored ==
    { ast.cache[i] : i \in { j \in 1..Len(ast.cache) : ast.cache[j].record # 0 } }

\* C7: when processDetailAssets has finished, a source URL whose record is
\* downloaded or uploaded has at most one entry in the document's asset log.
C7_AtMostOneMirrorPerUrl ==
    ast.phase = "done" =>
        \A e \in Mirrored :
            statusOf(ast.heap, e.record) \in {<<"downloaded">>, <<"uploaded">>} =>
                Cardinality({ i \in 1..Len(assetLog(ast.heap)) :
                                assetLog(ast.heap)[i] = e.record }) <= 1

\* C8: a step of the pass leaves every entry of the asset log in its place
\* and leaves every field of the record it refers to as it was.
C8_AssetRecordsImmutable ==
    [][(ast.phase = "passes") =>
          /\ Len(assetLog(ast'.heap)) >= Len(assetLog(ast.heap))
          /\ \A i \in 1..Len(assetLog(ast.heap)) :
                /\ assetLog(ast'.heap)[i] = assetLog(ast.heap)[i]
                /\ ast'.heap[assetLog(ast.heap)[i]] = ast.heap[assetLog(ast.heap)[i]]]_vars

\* a field a targeted pass may overwrite, with its sibling
SiblingFields ==
    { <<"s3_http_url", "original_s3_http_url">>, <<"url", "url_original">>,
      <<"vanillajs", "vanillajs_original">>,
      <<"project_template", "project_template_original">> }

\* C9: a sibling original-value field, once written, holds the URL the field
\* had in the fetched document, at every later point of the pass.
C9_OriginalFieldPreserved ==
    ast.phase \in {"passes", "done"} =>
        \A id \in 1..Len(ast.input), f \in SiblingFields :
            Truthy(Get(ast.heap, id, f[2])) =>
                /\ Get(ast.heap, id, f[2]).s = Get(ast.input, id, f[1]).s
                /\ Get(ast.heap, id, f[1]).s # Get(ast.input, id, f[1]).s

\* the URLs that occur in a text, as written, one per occurrence
occurrences(text) ==
    LET matches == matchUrls(text, 1)
    IN [i \in 1..Len(matches) |-> stripTrailing(matches[i])]

CountOf(text, url) ==
    Cardinality({ i \in 1..Len(occurrences(text)) : occurrences(text)[i] = url })

\* the strings of the fetched document the claim speaks of: the description
\* and every string the deep scan visited, as <<object, position>>
ScannedStrings ==
    UNION { { <<id, i>> : i \in { j \in 1..Len(ast.input[id].vals) :
                /\ ast.input[id].vals[j].t = "string"
                /\ \/ id = Root /\ ast.input[id].keys[j] = "description"
                   \/ /\ id \in ast.visited
                      /\ \/ ast.input[id].arr
                         \/ ~isAvatarOfUser(ast.input, id, ast.input[id].keys[j]) } }
            : id \in 1..Len(ast.input) }

\* C10: when processDetailAssets has finished, every occurrence of an uploaded
\* record's source URL in a scanned string has become its mirror URL.
C10_UploadedRewriteConsistent ==
    ast.phase = "done" =>
        \A e \in Mirrored, p \in ScannedStrings :
            statusOf(ast.heap, e.record) = <<"uploaded">> =>
                /\ CountOf(ast.heap[p[1]].vals[p[2]].s, e.sourceUrl) = 0
                /\ CountOf(ast.heap[p[1]].vals[p[2]].s, e.resultUrl)
                     = CountOf(ast.input[p[1]].vals[p[2]].s, e.sourceUrl)

\* every string of the fetched document, as <<object, position>>
AllStrings ==
    UNION { { <<id, i>> : i \in { j \in 1..Len(ast.input[id].vals) :
                                    ast.input[id].vals[j].t = "string" } }
            : id \in 1..Len(ast.input) }

\* C11: when processDetailAssets has finished, a URL whose record is failed
\* occurs in every string of the document as often as it did when fetched.
C11_FailedUrlUntouched ==
    ast.phase = "done" =>
        \A e \in Mirrored, p \in AllStrings :
            statusOf(ast.heap, e.record) = <<"failed">> =>
                CountOf(ast.heap[p[1]].vals[p[2]].s, e.sourceUrl)
                  = CountOf(ast.input[p[1]].vals[p[2]].s, e.sourceUrl)

\* the requests of one kind sent for a raw source URL
RequestsFor(op, sourceUrl) ==
    { i \in 1..Len(ast.io) : ast.io[i].op = op /\ ast.io[i].source = sourceUrl }

\* how often the pass looked a logged URL up: every lookup that yields a
\* record appends it to the asset log
timesLogged(record) ==
    Cardinality({ i \in 1..Len(assetLog(ast.heap)) : assetLog(ast.heap)[i] = record })

\* C12: at every point of a pass, at most one download request and at most
\* one upload request have been sent for a raw source URL, and none for a URL
\* that is not in the cache.
C12_OneRequestPerUrl ==
    ast.phase \in {"passes", "done"} =>
        /\ \A i \in 1..Len(ast.io) : CacheIndex(ast.cache, ast.io[i].source) # 0
        /\ \A j \in 1..Len(ast.cache) :
              /\ Cardinality(RequestsFor("download", ast.cache[j].sourceUrl)) <= 1
              /\ Cardinality(RequestsFor("upload", ast.cache[j].sourceUrl)) <= 1

\* a finished pass that looked a failed URL up more than once and sent the one
\* download request for it
C12_Witness ==
    /\ ast.phase = "done"
    /\ \E e \in Mirrored :
          /\ statusOf(ast.heap, e.record) = <<"failed">>
          /\ timesLogged(e.record) >= 2
          /\ Cardinality(RequestsFor("download", e.sourceUrl)) = 1
          /\ RequestsFor("upload", e.sourceUrl) = {}

\* <img src="https://cdn.example/a">
OneImage == <<"<img", "h", "q", ">">>

\* mirroring is enabled and the requests for url succeed
MirrorSucceeds(url) ==
    /\ cfg.assetSyncEnabled /\ cfg.assetDownloadEnabled /\ cfg.s3Enabled
    /\ ast.env.url # normalizeUrl(url)

\* C13: when processDetailAssets has finished on a document whose description
\* is one image, with mirroring enabled and succeeding, the description holds
\* the mirror URL in place of the original and the asset log has exactly one
\* entry for the URL, of kind description_image and status uploaded.
C13_DescriptionImageMirrored ==
    (/\ ast.phase = "done"
     /\ MirrorSucceeds(U1)
     /\ Get(ast.input, Root, "description").s = OneImage) =>
        \E e \in Mirrored :
            /\ e.sourceUrl = U1
            /\ Get(ast.heap, e.record, "kind").s = <<"description_image">>
            /\ statusOf(ast.heap, e.record) = <<"uploaded">>
            /\ Get(ast.heap, Root, "description").s = <<"<img">> \o e.resultUrl \o <<"q", ">">>
            /\ timesLogged(e.record) = 1

(***************************************************************************)
(* Error handling and the state machine of the orchestrator, under Spec.   *)
(***************************************************************************)
\* C14: the step that follows an exhausted list request checkpoints the
\* failure (failedRequests, lastError, globally and for the query), sends no
\* request, leaves the query index and the status running, and exits with
\* code 1; an exited run takes no further step but a new start of main().
C14_ListFailureAborts ==
    [][/\ (pc = "list_failed" /\ pc' \notin {"list_failed", "down"}) =>
            /\ pc' = "exited"
            /\ net'.exitCode = 1
            /\ db'.state.failedRequests = mem.failedRequests + 1
            /\ db'.state.lastError = mem.error.message
            /\ db'.state.multiQuery.perQuery[mem.queryKey].failedRequests
                 = perQuery(mem).failedRequests + 1
            /\ db'.state.multiQuery.perQuery[mem.queryKey].lastError = mem.error.message
            /\ db'.state.multiQuery.currentIndex = mem.mq.currentIndex
            /\ db'.state.status = "running"
            /\ net'.list = net.list
            /\ net'.detail = net.detail
       /\ (pc = "exited" /\ net.exitCode = 1) => hist'.runs = hist.runs + 1]_vars

\* a run of two queries that ended on a failed list request of the first
C14_Witness ==
    /\ pc = "exited"
    /\ net.exitCode = 1
    /\ cfg.multi
    /\ db.state.multiQuery.currentIndex = 0
    /\ db.state.failedRequests >= 1
    /\ db.state.status = "running"
    /\ ~db.state.multiQuery.perQuery["b"].present

\* C15: when the detail request of an item fails after its retries, the catch
\* adds one to failedRequests and checkpoints lastError, writes no detail
\* document, and goes on with the next item of the same page; the items of a
\* page are taken one by one in their order, each request is for the item at
\* the index, and the item loop is left only past the last item, with the
\* offset advanced by the page size and checkpointed.
C15_DetailFailureSkipsItem ==
    [][/\ (pc = "detail_failed" /\ pc' # "down") =>
            /\ pc' = "item"
            /\ db'.state.failedRequests = mem.failedRequests + 1
            /\ db'.state.lastError = mem.error.message
            /\ db'.state.multiQuery.perQuery[mem.queryKey].failedRequests
                 = perQuery(mem).failedRequests + 1
            /\ db'.detail = db.detail
            /\ mem'.items = mem.items
            /\ mem'.idx = mem.idx + 1
            /\ mem'.localOffset = mem.localOffset
            /\ mem'.detailItemsSaved = mem.detailItemsSaved
       /\ (pc = "item" /\ pc' # "down" /\ mem.idx <= Len(mem.items)) =>
            /\ mem'.items = mem.items
            /\ mem'.localOffset = mem.localOffset
            /\ \/ pc' = "item" /\ mem'.idx = mem.idx + 1
               \/ pc' = "detail_fetch" /\ mem'.idx = mem.idx
       /\ (pc = "detail_fetch" /\ pc' # "down") =>
            /\ net'.last.kind = "detail"
            /\ net'.last.slug = mem.items[mem.idx]
            /\ mem'.items = mem.items /\ mem'.idx = mem.idx
       /\ (pc = "item" /\ pc' # "down" /\ mem.idx > Len(mem.items)) =>
            /\ pc' = "page"
            /\ mem'.localOffset = mem.localOffset + ListLimit
            /\ db'.state.multiQuery.perQuery[mem.queryKey].lastOffset
                 = mem.localOffset + ListLimit]_vars

\* the first item of the page of query a failed, the second was saved, and the
\* page is done
C15_Witness ==
    /\ pc = "page" /\ mem.queryKey = "a" /\ mem.localOffset = ListLimit
    /\ hist.runs = 1
    /\ db.state.failedRequests = 1
    /\ \E i \in 1..Len(db.errors) :
         db.errors[i].context.type = "detail" /\ db.errors[i].context.slug = 0
    /\ 0 \notin db.detail
    /\ 1 \in db.detail
    /\ db.state.multiQuery.perQuery["a"].lastOffset = ListLimit

\* the SyncError documents of type asset
assetErrors(errors) ==
    { i \in 1..Len(errors) : errors[i].context.type = "asset" }

\* C16: when processDetailAssets raises on a fetched detail record, the catch
\* adds one to failedRequests and checkpoints it, writes exactly one SyncError
\* of type asset for the slug (and no other error document), and the item is
\* not abandoned: its detail document is upserted next and counted in
\* detailItemsSaved, which the following checkpoint persists.
C16_AssetFailureStillSaves ==
    [][/\ (pc = "detail_fetch" /\ pc' = "asset_error") =>
            /\ db'.state.failedRequests = mem.failedRequests + 1
            /\ db'.state.multiQuery.perQuery[mem.queryKey].failedRequests
                 = perQuery(mem).failedRequests + 1
            /\ db'.state.lastError = mem'.error.message
            /\ db'.errors = db.errors
            /\ db'.detail = db.detail
            /\ mem'.idx = mem.idx /\ mem'.items = mem.items
       /\ (pc = "asset_error" /\ pc' # "down") =>
            /\ pc' = "detail_save"
            /\ Len(db'.errors) = Len(db.errors) + 1
            /\ SubSeq(db'.errors, 1, Len(db.errors)) = db.errors
            /\ db'.errors[Len(db'.errors)].context.type = "asset"
            /\ db'.errors[Len(db'.errors)].context.slug = mem.items[mem.idx]
            /\ db'.errors[Len(db'.errors)].message = mem.error.message
            /\ db'.state = db.state
            /\ mem'.failedRequests = mem.failedRequests
            /\ mem'.idx = mem.idx /\ mem'.items = mem.items
       /\ (pc = "detail_save" /\ pc' # "down") =>
            /\ pc' = "detail_saved"
            /\ db'.detail = db.detail \cup {mem.items[mem.idx]}
            /\ db'.errors = db.errors
            /\ mem'.detailItemsSaved = mem.detailItemsSaved + 1
            /\ perQuery(mem').detailItemsSaved = perQuery(mem).detailItemsSaved + 1
            /\ mem'.idx = mem.idx /\ mem'.items = mem.items
       /\ (pc = "detail_saved" /\ pc' # "down") =>
            /\ db'.state.detailItemsSaved = mem.detailItemsSaved
            /\ db'.state.failedRequests = db.state.failedRequests
            /\ db'.errors = db.errors]_vars

\* asset processing raised for slug 0, one SyncError of type asset is there,
\* and the detail document of slug 0 is saved and counted
C16_Witness ==
    /\ pc = "item" /\ hist.runs = 1
    /\ Cardinality(assetErrors(db.errors)) = 1
    /\ \A i \in assetErrors(db.errors) : db.errors[i].context.slug = 0
    /\ db.state.failedRequests = 1
    /\ 0 \in db.detail
    /\ db.state.detailItemsSaved = 1
    /\ db.state.lastSlugProcessed = 0

\* the index of a query in the configured list, counted from 0
QueryIndex(q) == CHOOSE i \in 0..(Len(Queries) - 1) : Queries[i + 1] = q

\* the run was started after an interruption, in multi-query mode
Restarted == cfg.multi /\ hist.interrupted /\ pc \notin {"down", "exited"}

\* C17 (as stated): in multi-query mode, in a run restarted after an
\* interruption with query number i checkpointed as the active one, the first
\* list request is for query i at its checkpointed offset, and no query with
\* an index below i is entered.
C17_FirstRequestIsForActiveQuery ==
    [][Restarted =>
         /\ (net.list = 0 /\ net'.list = 1) =>
               /\ net'.last.query = Queries[hist.indexAtStart + 1]
               /\ net'.last.offset = hist.ckptAtStart[net'.last.query]
         /\ (pc = "loop" /\ pc' = "page") =>
               QueryIndex(mem'.queryKey) >= hist.indexAtStart]_vars

\* C17 (amended): the restarted run enters query i first, at its checkpointed
\* offset, and never a query below i; its first list request is for query i at
\* that offset unless the configured result window is already reached there,
\* in which case query i is closed without a request and the first request is
\* for the next query whose checkpointed offset is inside the window.
C17_ResumesActiveQuery ==
    [][Restarted =>
         /\ (net.list = 0 /\ net'.list = 1) =>
               /\ QueryIndex(net'.last.query) >= hist.indexAtStart
               /\ net'.last.offset = hist.ckptAtStart[net'.last.query]
               /\ ~windowReached(net'.last.offset)
               /\ \A k \in hist.indexAtStart..(QueryIndex(net'.last.query) - 1) :
                     windowReached(hist.ckptAtStart[Queries[k + 1]])
         /\ (pc = "loop" /\ pc' = "page") =>
               /\ QueryIndex(mem'.queryKey) >= hist.indexAtStart
               /\ mem'.localOffset = hist.ckptAtStart[mem'.queryKey]
               /\ (net.list = 0 /\ net.detail = 0 /\ mem.i = hist.indexAtStart)
                     => mem'.queryKey = Queries[hist.indexAtStart + 1]]_vars

\* interrupted in the second page of the second query, the restarted run has
\* made its first list request: for the second query, at the second page
C17_Witness ==
    /\ Restarted
    /\ hist.indexAtStart = 1
    /\ hist.ckptAtStart["b"] = ListLimit
    /\ net.list = 1 /\ net.detail = 0
    /\ net.last = [kind |-> "list", query |-> "b", offset |-> ListLimit, slug |-> -1]

\* C18: the persisted multiQuery.currentIndex never decreases, whatever the
\* step: a checkpoint, the end of a run, an interruption or a restart.
C18_CurrentIndexMonotone ==
    [][db'.state.multiQuery.currentIndex >= db.state.multiQuery.currentIndex]_vars

\* a run restarted after an interruption in the second query has written its
\* first checkpoint of the index
C18_Witness ==
    /\ Restarted
    /\ hist.indexAtStart = 1
    /\ pc = "page" /\ mem.queryKey = "b"
    /\ db.state.multiQuery.currentIndex = 1
    /\ db.state.currentQuery = "b"

\* the persisted status of a query, "none" while multiQuery.perQuery has no
\* entry for it
queryStatus(state, k) == state.multiQuery.perQuery[k].status

\* C19: the persisted statuses follow the state machine.  A query's status,
\* once there, changes only from running to completed or from running to
\* failed, so completed and failed are final; the global status, once there,
\* changes only from running to completed (the formula also lets it go from
\* running to failed, the checkpoint of a list error).
C19_StatusStateMachine ==
    [][/\ \A k \in QueryKeys :
            queryStatus(db'.state, k) # queryStatus(db.state, k) =>
                \/ queryStatus(db.state, k) = "none"
                     /\ queryStatus(db'.state, k) = "running"
                \/ queryStatus(db.state, k) = "running"
                     /\ queryStatus(db'.state, k) \in {"completed", "failed"}
       /\ db'.state.status # db.state.status =>
                \/ db.state.status = "none" /\ db'.state.status = "running"
                \/ db.state.status = "running"
                     /\ db'.state.status \in {"completed", "failed"}]_vars

\* the phrases of the remote API's window-limit error
WindowPhrases ==
    {"max_result_window", "Result window is too large", "result window is too large"}

\* the list response just received carries a window-limit error in meta.error
WindowError(meta) == \E phrase \in WindowPhrases : Includes(meta.error, phrase)

\* C20: a list response whose meta.error has the window-limit phrasing closes
\* the query as completed with stopReason max_result_window and the global
\* status still running; no exception is raised (the list catch is not
\* entered, no failure is counted, no SyncError written), nothing of the
\* response is saved and no detail request follows it, and control returns to
\* main(): in multi-query mode to the loop, at the next index, whose next step
\* enters the next query of the list.
C20_WindowErrorCompletesQuery ==
    [][/\ (pc = "list_fetch" /\ pc' # "down" /\ WindowError(hist'.listMeta)) =>
            /\ queryStatus(db'.state, mem.queryKey) = "completed"
            /\ db'.state.multiQuery.perQuery[mem.queryKey].stopReason = "max_result_window"
            /\ db'.state.multiQuery.perQuery[mem.queryKey].lastOffset = mem.localOffset
            /\ db'.state.stopReason = "max_result_window"
            /\ db'.state.status = "running"
            /\ db'.state.failedRequests = db.state.failedRequests
            /\ db'.errors = db.errors
            /\ db'.list = db.list /\ db'.detail = db.detail
            /\ net'.detail = net.detail
            /\ pc' = IF cfg.multi THEN "loop" ELSE "finish"
            /\ cfg.multi => mem'.i = mem.i + 1
       /\ (pc = "loop" /\ pc' # "down" /\ WindowError(hist.listMeta)) =>
            /\ net'.list = net.list /\ net'.detail = net.detail
            /\ IF mem.i < Len(Queries)
               THEN pc' = "page" /\ mem'.queryKey = Queries[mem.i + 1]
               ELSE pc' = "exited" /\ net'.exitCode = 0]_vars

\* the first query was closed by a window-limit error of the API and the run
\* has entered the second query
C20_Witness ==
    /\ cfg.multi /\ hist.runs = 1
    /\ WindowError(hist.listMeta)
    /\ pc = "page" /\ mem.queryKey = "b"
    /\ queryStatus(db.state, "a") = "completed"
    /\ db.state.multiQuery.perQuery["a"].stopReason = "max_result_window"
    /\ db.state.multiQuery.currentIndex = 1
    /\ net.detail = 0

(***************************************************************************)
(* The page loop of runQuery, under Spec: the result window, the skip      *)
(* policy, the order of the requests, and the list responses that end a    *)
(* query.                                                                  *)
(***************************************************************************)
\* C21: with a finite result window W configured, every list request has
\* offset + page limit <= W; at the top of the page loop, when the next page
\* would pass W, no request is made and the query is closed as completed with
\* stopReason max_result_window and its lastOffset at that offset.
C21_WindowNeverExceeded ==
    [][cfg.listMaxResultWindow >= 0 =>
         /\ net'.list > net.list =>
               /\ net'.last.kind = "list"
               /\ net'.last.offset + ListLimit <= cfg.listMaxResultWindow
         /\ (pc = "page" /\ pc' # "down"
               /\ mem.localOffset + ListLimit > cfg.listMaxResultWindow) =>
               /\ net'.list = net.list /\ net'.detail = net.detail
               /\ queryStatus(db'.state, mem.queryKey) = "completed"
               /\ db'.state.multiQuery.perQuery[mem.queryKey].stopReason
                    = "max_result_window"
               /\ db'.state.multiQuery.perQuery[mem.queryKey].lastOffset = mem.localOffset
               /\ db'.state.stopReason = "max_result_window"
               /\ db'.state.lastOffset = mem.localOffset
               /\ pc' = IF cfg.multi THEN "loop" ELSE "finish"]_vars

\* with a window of one page, the first page of query a was requested and the
\* query was closed at the top of the second
C21_Witness ==
    /\ cfg.listMaxResultWindow = ListLimit /\ cfg.multi
    /\ pc = "loop" /\ hist.runs = 1
    /\ net.list = 1 /\ net.last.query = "a"
    /\ queryStatus(db.state, "a") = "completed"
    /\ db.state.multiQuery.perQuery["a"].stopReason = "max_result_window"
    /\ db.state.multiQuery.perQuery["a"].lastOffset = ListLimit
    /\ db.state.lastError = <<"Reached max result window">>

\* the item the loop is at, while it is at one
AtItem == pc = "item" /\ mem.idx <= Len(mem.items)

\* C22: the existence lookup of a page is the set of its slugs that are in
\* the detail store at that moment.  With skip-existing set (with or without
\* only-missing), an item in that set gets no detail request and adds exactly
\* one to detailItemsSkipped; with both flags off it is requested, and its
\* detail document written again once fetched.
C22_SkipExisting ==
    [][/\ (pc = "list_saved" /\ pc' = "item") =>
            mem'.existingSlugSet
              = {mem.items[i] : i \in 1..Len(mem.items)} \cap db.detail
       /\ (AtItem /\ pc' # "down" /\ mem.items[mem.idx] \in mem.existingSlugSet) =>
            /\ cfg.skipExistingDetails =>
                 /\ pc' = "item" /\ mem'.idx = mem.idx + 1
                 /\ net'.detail = net.detail
                 /\ mem'.detailRequests = mem.detailRequests
                 /\ db'.state.detailRequests = db.state.detailRequests
                 /\ mem'.detailItemsSkipped = mem.detailItemsSkipped + 1
                 /\ db'.state.detailItemsSkipped = mem.detailItemsSkipped + 1
                 /\ perQuery(mem').detailItemsSkipped
                      = perQuery(mem).detailItemsSkipped + 1
                 /\ db'.detail = db.detail
            /\ (~cfg.skipExistingDetails /\ ~cfg.detailOnlyIfMissing) =>
                 /\ pc' = "detail_fetch" /\ mem'.idx = mem.idx
                 /\ mem'.detailItemsSkipped = mem.detailItemsSkipped
                 /\ mem'.detailRequests = mem.detailRequests + 1
       /\ (pc = "detail_fetch" /\ pc' # "down") =>
            /\ net'.detail = net.detail + 1
            /\ net'.last.slug = mem.items[mem.idx]
       /\ (pc = "detail_save" /\ pc' # "down") =>
            mem.items[mem.idx] \in db'.detail]_vars

\* a restarted run with both flags set has skipped the first item of a page,
\* saved by the run before, without a detail request
C22_Witness ==
    /\ cfg.skipExistingDetails /\ cfg.detailOnlyIfMissing
    /\ hist.runs = 2
    /\ pc = "item" /\ mem.idx = 2
    /\ mem.items[1] \in mem.existingSlugSet
    /\ mem.items[1] \in hist.savedAtStart
    /\ net.detail = 0
    /\ db.state.detailItemsSkipped = 1
    /\ db.state.lastSlugProcessed = mem.items[1]

(***************************************************************************)
(* The sleeps and the returns of requestWithRetry, under SpecRetry.        *)
(***************************************************************************)
\* the number of the attempt that the call event at position j is
attemptAt(events, j) == CountEvents(SubSeq(events, 1, j), "call")

\* C23: in the sequence of what a call of requestWithRetry did, a failed
\* attempt with status 429 is followed at once by a sleep of the rate-limit
\* delay, the last attempt included; any other failed attempt is followed by a
\* sleep of the retry delay when an attempt remains and by no sleep when none
\* does; there is no other sleep.  So an operation that always fails, never
\* with 429, is tried N times with N-1 sleeps.
C23_SleepsBetweenAttempts ==
    rt.phase = "done" =>
        LET ev == rt.result.events
            N == rt.maxRetries
        IN /\ \A j \in 1..Len(ev) :
                (ev[j].e = "call" /\ ~rt.outs[attemptAt(ev, j)].ok) =>
                    /\ j < Len(ev)
                    /\ IF rt.outs[attemptAt(ev, j)].status = 429
                       THEN ev[j + 1] = [e |-> "sleep", ms |-> RateLimitDelayMs]
                       ELSE IF attemptAt(ev, j) < N
                       THEN ev[j + 1] = [e |-> "sleep", ms |-> RetryDelayMs]
                       ELSE ev[j + 1].e # "sleep"
           /\ \A j \in 1..Len(ev) :
                ev[j].e = "sleep" =>
                    /\ j > 1 /\ ev[j - 1].e = "call"
                    /\ ~rt.outs[attemptAt(ev, j)].ok
           /\ (AlwaysFails(rt) /\ \A k \in 1..N : rt.outs[k].status # 429) =>
                /\ CountEvents(ev, "call") = N
                /\ CountEvents(ev, "sleep") = N - 1

\* three failing attempts, the last of them rate-limited: two kinds of sleep,
\* the second after the last attempt
C23_Witness ==
    /\ rt.phase = "done"
    /\ rt.maxRetries = MaxRetries
    /\ AlwaysFails(rt)
    /\ rt.outs[1].status = 500
    /\ rt.outs[MaxRetries].status = 429
    /\ CountEvents(rt.result.events, "sleep") = MaxRetries
    /\ rt.result.events[Len(rt.result.events) - 2]
         = [e |-> "sleep", ms |-> RateLimitDelayMs]

\* the first attempt that succeeds, 0 when none does
firstSuccess(r) ==
    IF AlwaysFails(r) THEN 0
    ELSE CHOOSE k \in 1..r.maxRetries :
            r.outs[k].ok /\ \A i \in 1..(k - 1) : ~r.outs[i].ok

\* C24: when the operation first succeeds on attempt k, 1 <= k <= N, the call
\* returns after exactly k invocations, the return follows the k-th
\* invocation at once (no sleep after the success), and no SyncError is
\* written.
C24_ReturnsOnSuccess ==
    (rt.phase = "done" /\ firstSuccess(rt) > 0) =>
        LET ev == rt.result.events
        IN /\ rt.result.ok
           /\ CountEvents(ev, "call") = firstSuccess(rt)
           /\ ev[Len(ev)] = [e |-> "return"]
           /\ ev[Len(ev) - 1] = [e |-> "call"]
           /\ CountEvents(ev, "sleep") = firstSuccess(rt) - 1
           /\ CountEvents(ev, "insert") = 0
           /\ CountEvents(ev, "throw") = 0
           /\ rt.result.errorDocs = <<>>
           /\ db.errors = <<>>

\* the operation succeeded on the last attempt the configuration allows
C24_Witness ==
    /\ rt.phase = "done"
    /\ rt.maxRetries = MaxRetries
    /\ firstSuccess(rt) = MaxRetries
    /\ rt.result.ok
    /\ rt.outs[1].status = 429

(***************************************************************************)
(* mirrorUrl and its outcomes, under SpecAsset.                            *)
(***************************************************************************)
\* the download request for a source URL is rejected
DownloadThrows(sourceUrl) ==
    /\ cfg.assetDownloadEnabled
    /\ \/ ~isHttpUrl(normalizeUrl(sourceUrl))
       \/ ast.env.op = "download" /\ ast.env.url = normalizeUrl(sourceUrl)

\* the image sources of the fetched document's description, when the
\* document is of a type whose description is gone through
DescriptionImages ==
    IF "description" \in { passes(ast.input)[i] : i \in 1..Len(passes(ast.input)) }
       /\ Truthy(Get(ast.input, Root, "description"))
    THEN { matchImgSrc(Get(ast.input, Root, "description").s, 1)[i] :
             i \in 1..Len(matchImgSrc(Get(ast.input, Root, "description").s, 1)) }
    ELSE {}

\* C25: a download that throws does not leave mirrorUrl as an exception: the
\* URL gets a record of status failed, with no mirror URL, its result URL is
\* the source URL, and no upload request is sent for it; the pass goes on, so
\* that when it has finished every image of the description has been looked
\* up, whichever of them failed.
C25_DownloadFailureContained ==
    /\ ast.phase \in {"passes", "done"} =>
          \A e \in Mirrored :
              DownloadThrows(e.sourceUrl) =>
                  /\ statusOf(ast.heap, e.record) = <<"failed">>
                  /\ Get(ast.heap, e.record, "s3Url") = Null
                  /\ e.resultUrl = e.sourceUrl
                  /\ RequestsFor("upload", e.sourceUrl) = {}
                  /\ Cardinality(RequestsFor("download", e.sourceUrl)) = 1
    /\ (ast.phase = "done" /\ cfg.assetSyncEnabled) =>
          \A url \in DescriptionImages : CacheIndex(ast.cache, url) # 0

\* a finished pass in which the download of one URL failed and another URL
\* of the same document was uploaded
C25_Witness ==
    /\ ast.phase = "done"
    /\ ast.env.op = "download"
    /\ \E e, f \in Mirrored :
          /\ DownloadThrows(e.sourceUrl)
          /\ statusOf(ast.heap, e.record) = <<"failed">>
          /\ ~DownloadThrows(f.sourceUrl)
          /\ statusOf(ast.heap, f.record) = <<"uploaded">>
          /\ f.record > e.record

\* the upload request for a source URL is rejected
UploadThrows(sourceUrl) ==
    ast.env.op = "upload" /\ ast.env.url = normalizeUrl(sourceUrl)

\* the download of a mirrored source URL returned a file
Downloaded(sourceUrl) == cfg.assetDownloadEnabled /\ ~DownloadThrows(sourceUrl)

\* the URL uploadToS3 returns for a record: the mirror base and the key
MirrorUrlOf(record) == <<"m">> \o Get(ast.heap, record, "key").s

\* C26: after a successful download, an upload that is enabled and succeeds
\* gives status uploaded and the mirror URL as result; an upload that throws
\* gives status failed and the source URL; with uploads disabled the status
\* is downloaded, the result is the source URL and no upload request is sent.
\* So a result URL other than the source URL goes with status uploaded only.
C26_UploadOutcomes ==
    ast.phase \in {"passes", "done"} =>
        \A e \in Mirrored :
            /\ (Downloaded(e.sourceUrl) /\ cfg.s3Enabled /\ ~UploadThrows(e.sourceUrl)) =>
                  /\ statusOf(ast.heap, e.record) = <<"uploaded">>
                  /\ e.resultUrl = MirrorUrlOf(e.record)
                  /\ Get(ast.heap, e.record, "s3Url") = Str(e.resultUrl)
                  /\ Cardinality(RequestsFor("upload", e.sourceUrl)) = 1
            /\ (Downloaded(e.sourceUrl) /\ cfg.s3Enabled /\ UploadThrows(e.sourceUrl)) =>
                  /\ statusOf(ast.heap, e.record) = <<"failed">>
                  /\ e.resultUrl = e.sourceUrl
                  /\ Cardinality(RequestsFor("upload", e.sourceUrl)) = 1
            /\ (Downloaded(e.sourceUrl) /\ ~cfg.s3Enabled) =>
                  /\ statusOf(ast.heap, e.record) = <<"downloaded">>
                  /\ e.resultUrl = e.sourceUrl
                  /\ RequestsFor("upload", e.sourceUrl) = {}
            /\ e.resultUrl # e.sourceUrl => statusOf(ast.heap, e.record) = <<"uploaded">>

\* a finished pass in which one URL was uploaded and the upload of another
\* URL, downloaded as well, was rejected
C26_Witness ==
    /\ ast.phase = "done"
    /\ \E e, f \in Mirrored :
          /\ Downloaded(e.sourceUrl) /\ UploadThrows(e.sourceUrl)
          /\ statusOf(ast.heap, e.record) = <<"failed">>
          /\ e.resultUrl = e.sourceUrl
          /\ Downloaded(f.sourceUrl) /\ ~UploadThrows(f.sourceUrl)
          /\ f.resultUrl = MirrorUrlOf(f.record)

(***************************************************************************)
(* mirrorUrl called on its own, next to the passes of processDetailAssets: *)
(* the function takes any source URL under any configuration, while the    *)
(* passes hand it only non-empty URLs with asset sync enabled.             *)
(***************************************************************************)
\* a mirror URL, as uploadToS3 returns it
M1 == <<"m", Uuids[1]>>

\* the source URLs mirrorUrl is called with
MirrorArgs == {<<>>, U1, U2, UH, <<"rel">>, M1, M1 \o <<"x">>}

\* a document with no asset in it
PlainDetail == <<Obj(<<"problem_type", "slug">>, <<Word("MCQ"), Word("slug")>>)>>

NoReturn == [record |-> 0, resultUrl |-> <<>>]

InitMirror ==
    \/ InitAsset
    \/ /\ cfg \in AssetConfigs
       /\ db = [state |-> NoState, list |-> {}, detail |-> {}, errors |-> <<>>]
       /\ pc = "down"
       /\ mem = NoMem
       /\ net = NoNet
       /\ hist = IdleHist
       /\ rt = NoRetry
       /\ \E sourceUrl \in MirrorArgs, env \in Failures :
             ast = [phase |-> "call", input |-> PlainDetail, heap |-> PlainDetail,
                    cache |-> <<>>, nextKey |-> 1, io |-> <<>>, env |-> env,
                    visited |-> {}, todo |-> <<>>, descents |-> <<>>,
                    arg |-> sourceUrl, ret |-> NoReturn]

\* await mirrorUrl({ sourceUrl, ... })
MirrorUrl ==
    /\ ast.phase = "call"
    /\ ast' = Only({ [r.S EXCEPT !.phase = "returned",
                                 !.ret = [record |-> r.record, resultUrl |-> r.resultUrl]]
                     : r \in {mirrorUrl(cfg, ast, ast.arg, "direct")} })
    /\ AssetUnchanged

NextMirror ==
    \/ NextAsset
    \/ MirrorUrl

SpecMirror == InitMirror /\ [][NextMirror]_vars

\* String.startsWith(config.s3BaseUrl) on the normalized URL
StartsWithMirrorBase(sourceUrl) ==
    sourceUrl # <<>> /\ IsAt(normalizeUrl(sourceUrl), <<"m">>, 1)

\* C27: mirrorUrl called with mirroring disabled, with an empty source URL or
\* with a URL that starts with the mirror base after normalization returns
\* record null and the input as result URL, sends no request and writes no
\* record; so in the passes of processDetailAssets a URL at the mirror base,
\* such as a field rewritten by an earlier pass, is looked up without a
\* request and without a record, and with mirroring disabled the document is
\* left as it was fetched.
C27_MirrorNoOp ==
    /\ (/\ ast.phase = "returned"
        /\ \/ ~cfg.assetSyncEnabled
           \/ ast.arg = <<>>
           \/ StartsWithMirrorBase(ast.arg)) =>
          /\ ast.ret = [record |-> 0, resultUrl |-> ast.arg]
          /\ ast.io = <<>>
          /\ ast.heap = ast.input
    /\ ast.phase \in {"passes", "done"} =>
          /\ \A i \in 1..Len(ast.io) : ~StartsWithMirrorBase(ast.io[i].source)
          /\ \A i \in 1..Len(ast.cache) :
                StartsWithMirrorBase(ast.cache[i].sourceUrl) =>
                    /\ ast.cache[i].record = 0
                    /\ ast.cache[i].resultUrl = ast.cache[i].sourceUrl
          /\ \A e \in Mirrored : ~StartsWithMirrorBase(e.sourceUrl)
          /\ ~cfg.assetSyncEnabled => (ast.io = <<>> /\ ast.heap = ast.input)

\* a finished pass in which a URL was uploaded, a field was rewritten to its
\* mirror URL, and a later pass looked the mirror URL up
C27_Witness ==
    /\ ast.phase = "done"
    /\ \E e \in Mirrored :
          /\ statusOf(ast.heap, e.record) = <<"uploaded">>
          /\ StartsWithMirrorBase(e.resultUrl)
          /\ CacheIndex(ast.cache, e.resultUrl) # 0
          /\ ast.cache[CacheIndex(ast.cache, e.resultUrl)].record = 0

(***************************************************************************)
(* The order of the requests of a run, under Spec.  net.last is the        *)
(* request issued last in the run, so a step that issues a request shows   *)
(* two consecutive requests.                                               *)
(***************************************************************************)
DetailRequestIssued == net'.detail > net.detail

\* the place of a slug in the page the list endpoint returns for a request
PlaceInPage(request, slug) ==
    CHOOSE i \in 0..ListLimit :
        \/ /\ i \in 1..Len(PageItems(request.query, request.offset))
           /\ PageItems(request.query, request.offset)[i] = slug
        \/ i = 0 /\ \A j \in 1..Len(PageItems(request.query, request.offset)) :
                        PageItems(request.query, request.offset)[j] # slug

\* C28: within a run, a list request that follows a request of the same
\* query is exactly one page limit above it, and one that follows a request
\* of another query is for a query later in the configured list; a detail
\* request is for an item of the page of the list request before it, at a
\* later place in that page than the detail request before it; and the
\* offset advances only when the item loop has gone past the last item.
C28_RequestOrder ==
    [][/\ (ListRequestIssued /\ net.last.kind # "none") =>
              IF net'.last.query = net.last.query
              THEN net'.last.offset = net.last.offset + ListLimit
              ELSE /\ cfg.multi
                   /\ QueryIndex(net'.last.query) > QueryIndex(net.last.query)
       /\ DetailRequestIssued =>
              /\ net.last.kind \in {"list", "detail"}
              /\ net'.last.query = net.last.query
              /\ net'.last.offset = net.last.offset
              /\ PlaceInPage(net'.last, net'.last.slug) >= 1
              /\ net.last.kind = "detail" =>
                    PlaceInPage(net'.last, net'.last.slug)
                        > PlaceInPage(net.last, net.last.slug)
       /\ (pc \notin {"down", "exited"} /\ pc' \notin {"down", "exited"}
           /\ mem'.queryKey = mem.queryKey /\ mem'.localOffset # mem.localOffset) =>
              /\ pc = "item"
              /\ mem.idx > Len(mem.items)
              /\ mem'.localOffset = mem.localOffset + ListLimit
       /\ (pc = "loop" /\ pc' = "page") => mem'.queryKey = queryList[mem.i + 1]
      ]_vars

\* the second page of a query is requested after two detail requests for its
\* first page
C28_Witness ==
    /\ net.last = [kind |-> "list", query |-> "", offset |-> ListLimit, slug |-> -1]
    /\ net.detail = ListLimit
    /\ net.list = 2

\* the list response just received carries a business error without the
\* window-limit phrasing
OtherListError(meta) ==
    /\ getListError(meta) # NoMessage
    /\ \A phrase \in WindowPhrases : ~Includes(getListError(meta), phrase)

\* the run since a list response with such an error: the request of that
\* response is still the last one of the run, its query is recorded as failed
\* with stopReason list_error, and the run is back in main(), or in a query
\* other than that one and before the first response of it
AfterOtherListError ==
    (OtherListError(hist.listMeta) /\ pc # "down") =>
        /\ net.last.kind = "list"
        /\ queryStatus(db.state, net.last.query) = "failed"
        /\ db.state.multiQuery.perQuery[net.last.query].stopReason = "list_error"
        /\ \/ pc \in {"loop", "finish", "exited"}
           \/ pc \in {"page", "list_fetch"} /\ mem.queryKey # net.last.query

\* C29: a list response with a business error that has not the window-limit
\* phrasing records the query as failed with stopReason list_error, at the
\* offset of the request and with the error as lastError; nothing of the
\* response is saved, no detail request follows, no second request is sent
\* for it, and runQuery returns: the next step of the run is the next query
\* of the list or the end of main().
C29_ListErrorFailsQuery ==
    [][/\ (pc = "list_fetch" /\ pc' # "down" /\ OtherListError(hist'.listMeta)) =>
            /\ queryStatus(db'.state, mem.queryKey) = "failed"
            /\ db'.state.multiQuery.perQuery[mem.queryKey].stopReason = "list_error"
            /\ db'.state.multiQuery.perQuery[mem.queryKey].lastOffset = mem.localOffset
            /\ db'.state.multiQuery.perQuery[mem.queryKey].lastError
                  = getListError(hist'.listMeta)
            /\ db'.list = db.list /\ db'.detail = db.detail
            /\ net'.list = net.list + 1 /\ net'.detail = net.detail
            /\ pc' = IF cfg.multi THEN "loop" ELSE "finish"
            /\ cfg.multi => mem'.i = mem.i + 1
       /\ (pc \in {"loop", "finish"} /\ pc' # "down" /\ OtherListError(hist.listMeta)) =>
            /\ net'.list = net.list /\ net'.detail = net.detail
            /\ IF pc = "loop" /\ mem.i < Len(Queries)
               THEN pc' = "page" /\ mem'.queryKey = Queries[mem.i + 1]
               ELSE pc' = "exited"
       /\ AfterOtherListError'
      ]_vars

\* the first query was closed by such an error and the run has entered the
\* second query
C29_Witness ==
    /\ cfg.multi /\ hist.runs = 1
    /\ OtherListError(hist.listMeta)
    /\ pc = "list_fetch" /\ mem.queryKey = "b"
    /\ queryStatus(db.state, "a") = "failed"
    /\ db.state.multiQuery.perQuery["a"].stopReason = "list_error"
    /\ db.list = {} /\ net.detail = 0

\* the list response just received has no error and no items
EmptyPage(h) == h.listItems = 0 /\ getListError(h.listMeta) = NoMessage

\* the run since such a response: its request is still the last one of the
\* run, its query is recorded as completed with lastOffset at the offset of
\* that request, and the run is back in main(), or in a query other than that
\* one and before the first response of it
AfterEmptyPage ==
    (EmptyPage(hist) /\ pc # "down") =>
        /\ net.last.kind = "list"
        /\ queryStatus(db.state, net.last.query) = "completed"
        /\ db.state.multiQuery.perQuery[net.last.query].lastOffset = net.last.offset
        /\ \/ pc \in {"loop", "finish", "exited"}
           \/ pc \in {"page", "list_fetch"} /\ mem.queryKey # net.last.query

\* C30: a list response with no items records the query as completed with
\* lastOffset at the offset of that page; nothing is saved, no detail request
\* follows, and runQuery returns: the next step of the run is the next query
\* of the list or the end of main(), and no list request for that query
\* follows in the run.
C30_EmptyPageCompletesQuery ==
    [][/\ (pc = "list_fetch" /\ pc' # "down" /\ EmptyPage(hist')) =>
            /\ queryStatus(db'.state, mem.queryKey) = "completed"
            /\ db'.state.multiQuery.perQuery[mem.queryKey].lastOffset = mem.localOffset
            /\ db'.state.lastOffset = mem.localOffset
            /\ db'.list = db.list /\ db'.detail = db.detail
            /\ net'.list = net.list + 1 /\ net'.detail = net.detail
            /\ pc' = IF cfg.multi THEN "loop" ELSE "finish"
            /\ cfg.multi => mem'.i = mem.i + 1
       /\ (pc \in {"loop", "finish"} /\ pc' # "down" /\ EmptyPage(hist)) =>
            /\ net'.list = net.list /\ net'.detail = net.detail
            /\ IF pc = "loop" /\ mem.i < Len(Queries)
               THEN pc' = "page" /\ mem'.queryKey = Queries[mem.i + 1]
               ELSE pc' = "exited" /\ net'.exitCode = 0
       /\ AfterEmptyPage'
      ]_vars

\* the first query came to its empty page after a page of items, and the run
\* has requested the first page of the second query
C30_Witness ==
    /\ cfg.multi /\ hist.runs = 1
    /\ pc = "list_saved" /\ mem.queryKey = "b"
    /\ queryStatus(db.state, "a") = "completed"
    /\ db.state.multiQuery.perQuery["a"].lastOffset = ListLimit
    /\ db.state.multiQuery.perQuery["a"].listRequests = 2
    /\ net.list = 3

(***************************************************************************)
(* The passes of processDetailAssets and the deep scan, under SpecAsset.   *)
(***************************************************************************)
\* the fetched document is of a project-based type or carries project data
IsProjectBased ==
    \/ Get(ast.input, Root, "problem_type") \in { Word(t) : t \in PROJECT_BASED_TYPES }
    \/ Truthy(projectData(ast.input))

IsUix == Get(ast.input, Root, "problem_type") = Word("UIX")

\* the targeted passes, then the private attachments and the deep scan
TargetedOrder ==
    (IF IsProjectBased THEN <<"project", "description", "attachments">> ELSE <<>>)
    \o (IF IsUix THEN <<"uix", "description", "attachments">> ELSE <<>>)

\* the source URLs in the cache of the pass
Cached(S) == { S.cache[i].sourceUrl : i \in 1..Len(S.cache) }

CyclicDetails ==
    { <<Obj(<<"problem_type", "slug", "notes", "self">>,
            <<Word("MCQ"), Word("slug"), Str(U1), Ref(Root)>>)>>,
      <<Obj(<<"problem_type", "slug", "child">>,
            <<Word("MCQ"), Word("slug"), Ref(2)>>),
        Obj(<<"parent", "url", "twin">>, <<Ref(Root), Str(U1), Ref(2)>>)>>,
      <<Obj(<<"problem_type", "slug", "private_attachments">>,
            <<Word("MCQ"), Word("slug"), Ref(2)>>),
        Arr(<<Ref(2), Str(U2), Ref(Root)>>)>> }

InitScan ==
    \/ InitAsset
    \/ /\ cfg \in AssetConfigs
       /\ db = [state |-> NoState, list |-> {}, detail |-> {}, errors |-> <<>>]
       /\ pc = "down"
       /\ mem = NoMem
       /\ net = NoNet
       /\ hist = IdleHist
       /\ rt = NoRetry
       /\ \E detail \in CyclicDetails, env \in Failures :
             ast = [phase |-> "fetched", input |-> detail, heap |-> detail,
                    cache |-> <<>>, nextKey |-> 1, io |-> <<>>, env |-> env,
                    visited |-> {}, todo |-> <<>>, descents |-> <<>>]

SpecScan == InitScan /\ [][NextAsset]_vars /\ WF_vars(NextAsset)

\* the containers the walk went into, each once
DescendedOnce ==
    \A i, j \in 1..Len(ast.descents) : ast.descents[i] = ast.descents[j] => i = j

\* the asset log, when the walk has been through it: the array of records
LogWalked ==
    /\ Truthy(Get(ast.heap, Root, "extra_data"))
    /\ Len(assetLog(ast.heap)) > 0
    /\ \A i \in 1..Len(assetLog(ast.heap)) : assetLog(ast.heap)[i] \in ast.visited

\* C32: every call of processDetailAssets comes to its end, the deep scan
\* included, on documents that refer to themselves as on the others; the
\* walk goes into no container twice, and it ends by itself, the cut-off
\* is never reached.
C32_DeepScanTerminates ==
    /\ [](DescendedOnce /\ Len(ast.descents) < MaxDescents
          /\ \A id \in ast.visited : id \in 1..Len(ast.heap))
    /\ <>(ast.phase = "done")

\* a finished scan of the document whose array holds itself and the root:
\* the walk went into both and through the asset log, which grew under it
C32_Witness ==
    /\ ast.phase = "done"
    /\ cfg.assetScanAllUrls
    /\ Get(ast.input, Root, "private_attachments") = Ref(2)
    /\ ast.input[2].vals[1] = Ref(2)
    /\ {Root, 2} \subseteq ast.visited
    /\ LogWalked
    /\ Len(assetLog(ast.heap)) >= 2

(***************************************************************************)
(* processDetailAssets called for one detail record after another, as the  *)
(* item loop of runQuery does: the uuids and the network go on, the cache  *)
(* is the one of the call.                                                 *)
(***************************************************************************)
\* calls of processDetailAssets a behaviour holds
MaxCalls == 2

\* the detail records of two items: they share U1 in several fields
RecordDetails ==
    { Detail("PBT", [description |-> <<"<img", "h", "q", ">">>, project_template |-> U1,
                     solution |-> "none", attachment |-> "none", private |-> <<>>,
                     uix |-> FALSE, avatar |-> <<>>, notes |-> <<>>]),
      Detail("UIX", [description |-> <<>>, project_template |-> <<>>,
                     solution |-> "none", attachment |-> "url", private |-> <<>>,
                     uix |-> TRUE, avatar |-> <<>>, notes |-> <<>>]),
      Detail("MCQ", [description |-> <<>>, project_template |-> <<>>,
                     solution |-> "none", attachment |-> "none", private |-> U1,
                     uix |-> FALSE, avatar |-> <<>>, notes |-> <<"h", " ", "h", "x">>]) }

\* a cache that outlives the call
newCache_Shared(S) == S.cache

\* const cache = new Map() (line 421)
newCache(S) == <<>>

InitRecords ==
    /\ cfg \in AssetConfigs
    /\ db = [state |-> NoState, list |-> {}, detail |-> {}, errors |-> <<>>]
    /\ pc = "down"
    /\ mem = NoMem
    /\ net = NoNet
    /\ hist = IdleHist
    /\ rt = NoRetry
    /\ \E detail \in RecordDetails, env \in Failures :
          ast = [phase |-> "fetched", input |-> detail, heap |-> detail,
                 cache |-> <<>>, nextKey |-> 1, io |-> <<>>, env |-> env,
                 visited |-> {}, todo |-> <<>>, descents |-> <<>>,
                 call |-> 1, before |-> <<>>]

\* the next item of the page: its detail record is fetched and handed to
\* processDetailAssets; before keeps the cache the last call ended with
NextDetailRecord ==
    /\ ast.phase = "done"
    /\ ast.call < MaxCalls
    /\ \E detail \in RecordDetails :
          ast' = [ast EXCEPT !.phase = "fetched", !.input = detail, !.heap = detail,
                             !.cache = newCache(ast), !.visited = {}, !.todo = <<>>,
                             !.descents = <<>>, !.call = @ + 1, !.before = ast.cache]
    /\ AssetUnchanged

NextRecords ==
    \/ NextAsset
    \/ NextDetailRecord

SpecRecords == InitRecords /\ [][NextRecords]_vars

\* the URLs the call before this one mirrored
MirroredBefore ==
    { ast.before[i].sourceUrl : i \in { j \in 1..Len(ast.before) : ast.before[j].record # 0 } }

\* C33: a call of processDetailAssets starts with an empty cache; a URL that
\* the call before had mirrored and that this call mirrors too is requested
\* again, once in this call, and every download request for it has a key of
\* its own.
C33_CachePerRecord ==
    /\ ast.phase = "fetched" => ast.cache = <<>>
    /\ (ast.call > 1 /\ cfg.assetDownloadEnabled) =>
          \A e \in Mirrored :
              e.sourceUrl \in MirroredBefore =>
                  /\ Cardinality(RequestsFor("download", e.sourceUrl)) >= 2
                  /\ Cardinality(RequestsFor("download", e.sourceUrl)) <= ast.call
                  /\ \A i, j \in RequestsFor("download", e.sourceUrl) :
                        ast.io[i].key = ast.io[j].key => i = j
                  /\ Get(ast.heap, e.record, "key").s
                        = ast.io[CHOOSE i \in RequestsFor("download", e.sourceUrl) :
                                   \A j \in RequestsFor("download", e.sourceUrl) : j <= i].key

\* the second record holds a URL the first record had uploaded: it is
\* uploaded again, under another key
C33_Witness ==
    /\ ast.phase = "done"
    /\ ast.call = 2
    /\ \E e \in Mirrored :
          /\ e.sourceUrl = U1
          /\ U1 \in MirroredBefore
          /\ statusOf(ast.heap, e.record) = <<"uploaded">>
          /\ Cardinality(RequestsFor("upload", U1)) = 2

(***************************************************************************)
(* What the deep scan takes up and what it leaves, under SpecAsset.        *)
(***************************************************************************)
\* the key of the j-th member of a container, "" in an array
KeyAt(heap, id, j) == IF heap[id].arr THEN "" ELSE heap[id].keys[j]

\* a member the walk passes over: avatar_url or avatar of an object with a
\* username, a resource_uri or a full_name
AvatarMember(heap, id, j) ==
    /\ KeyAt(heap, id, j) \in {"avatar_url", "avatar"}
    /\ \E k \in {"username", "resource_uri", "full_name"} : Truthy(Get(heap, id, k))

\* the strings of a heap, as <<container, position>>
StringMembers(heap) ==
    UNION { { <<id, j>> : j \in { k \in 1..Len(heap[id].vals) :
                                    heap[id].vals[k].t = "string" } }
            : id \in 1..Len(heap) }

\* the URLs the scan extracts from the strings it does not pass over
UrlsInScope(heap) ==
    UNION { { extractUrls(heap[p[1]].vals[p[2]].s)[i]
                : i \in 1..Len(extractUrls(heap[p[1]].vals[p[2]].s)) }
            : p \in { q \in StringMembers(heap) : ~AvatarMember(heap, q[1], q[2]) } }

\* C34: the deep scan leaves every avatar_url and avatar of an object with a
\* username, resource_uri or full_name as it was, and mirrors no URL that
\* only such a member holds; of every other string the document has when
\* the scan begins, the container is walked and every URL extracted from it
\* is looked up.
C34_AvatarExcluded ==
    [][(ast.phase = "passes" /\ Head(ast.todo) = "deep" /\ cfg.assetScanAllUrls) =>
          /\ \A p \in StringMembers(ast.heap) :
                IF AvatarMember(ast.heap, p[1], p[2])
                THEN ast'.heap[p[1]].vals[p[2]] = ast.heap[p[1]].vals[p[2]]
                ELSE /\ p[1] \in ast'.visited
                     /\ \A i \in 1..Len(extractUrls(ast.heap[p[1]].vals[p[2]].s)) :
                           CacheIndex(ast'.cache,
                                      extractUrls(ast.heap[p[1]].vals[p[2]].s)[i]) # 0
          /\ \A i \in (Len(ast.cache) + 1)..Len(ast'.cache) :
                ast'.cache[i].record # 0 =>
                    ast'.cache[i].sourceUrl \in UrlsInScope(ast.heap)
      ]_vars

\* a finished scan of a document with an author's avatar and a URL in its
\* notes: the URL of the notes was mirrored, the avatar's was not
C34_Witness ==
    /\ ast.phase = "done"
    /\ cfg.assetScanAllUrls /\ cfg.assetSyncEnabled
    /\ Truthy(Get(ast.heap, Root, "author"))
    /\ GetIn(ast.heap, Get(ast.heap, Root, "author"), "avatar_url") = Str(U1)
    /\ U1 \notin Cached(ast)
    /\ Mirrored # {}

(***************************************************************************)
(* The persisted statuses and counters, under Spec.                        *)
(***************************************************************************)
\* the keys of the queries of a run: the configured list, or the single query
RunQueries == IF cfg.multi THEN {Queries[i] : i \in 1..Len(Queries)} ELSE {""}

\* C35: whenever the persisted global status is completed, every query of
\* the run has the persisted status completed; none has failed.
C35_CompletedMeansAllCompleted ==
    db.state.status = "completed" =>
        \A k \in RunQueries : queryStatus(db.state, k) = "completed"

\* C36: when a run has ended by itself, by the return of main() or by an
\* error that main() raised, the persisted global status is completed or
\* failed.
C36_EndedRunNotRunning ==
    pc = "exited" => db.state.status \in {"completed", "failed"}


(***************************************************************************)
(* C37: the top-level counters and the per-query counters.                 *)
(***************************************************************************)
Counters ==
    {"listRequests", "detailRequests", "listItemsSaved",
     "detailItemsSaved", "detailItemsSkipped", "failedRequests"}

RECURSIVE sumOver(_, _, _)
\* the sum of one counter over the perQuery records under the given keys
sumOver(multiQueryState, counter, keys) ==
    IF keys = {} THEN 0
    ELSE LET k == CHOOSE x \in keys : TRUE
         IN multiQueryState.perQuery[k][counter]
            + sumOver(multiQueryState, counter, keys \ {k})

\* C37: in every persisted state of runs started from an empty state
\* store, each top-level counter equals the sum of the same counter over
\* all per-query progress records, across interruptions and restarts.
C37_CountersAreSums ==
    db.state.exists =>
        \A c \in Counters : db.state[c] = sumOver(db.state.multiQuery, c, QueryKeys)

\* a restarted run of several queries whose counters are spread over two
\* per-query records
C37_Witness ==
    /\ db.state.exists
    /\ hist.runs = 2
    /\ hist.interrupted
    /\ pc \notin {"down", "exited"}
    /\ db.state.multiQuery.perQuery["a"].detailItemsSaved > 0
    /\ db.state.multiQuery.perQuery["b"].listRequests > 0
    /\ db.state.detailItemsSaved > 0
    /\ db.state.failedRequests > 0

(***************************************************************************)
(* C38: the items of a page and what the item loop does with them.         *)
(***************************************************************************)
\* C38: for every page completed within one uninterrupted run, the number
\* of its slug-bearing items equals the number saved plus the number
\* skipped plus the number whose detail fetch failed; items without a slug
\* are neither upserted into the list store nor detail-fetched, and a
\* detail document is written only for an item whose detail fetch succeeded.
C38_PageAccounting ==
    [][/\ (pc = "item" /\ mem.idx > Len(mem.items) /\ pc' # "down") =>
            /\ mem.items = itemsWithSlug(PageItems(mem.queryKey, mem.localOffset))
            /\ Len(mem.items)
                 = hist.page.saved + hist.page.skipped + hist.page.failed
       /\ NoSlug \notin db'.list
       /\ NoSlug \notin db'.detail
       /\ DetailRequestIssued => net'.last.slug # NoSlug
       /\ db'.detail # db.detail =>
            /\ hist.page.fetched # NoSlug
            /\ hist.page.fetched = mem.items[mem.idx]
            /\ db'.detail = db.detail \cup {hist.page.fetched}]_vars

\* the end of the page that holds an item without a slug: its one
\* slug-bearing item saved, after a page one item of which failed
C38_Witness ==
    /\ pc = "item"
    /\ mem.idx > Len(mem.items)
    /\ NoSlug \in {PageItems(mem.queryKey, mem.localOffset)[i] :
                      i \in 1..Len(PageItems(mem.queryKey, mem.localOffset))}
    /\ hist.listItems = ListLimit
    /\ Len(mem.items) = 1
    /\ hist.page.saved = 1
    /\ db.state.failedRequests = 1
    /\ db.list = {0, 1, 2}
    /\ Cardinality(db.detail) = 2

(***************************************************************************)
(* C39: the substitution of the URLs of one string, under SpecAsset.       *)
(***************************************************************************)
IsPrefix(u, v) == Len(u) < Len(v) /\ SubSeq(v, 1, Len(u)) = u

\* two of the URLs extracted from a text, one a textual prefix of the other
HasPrefixPair(text) ==
    \E a, b \in 1..Len(extractUrls(text)) :
        IsPrefix(extractUrls(text)[a], extractUrls(text)[b])

\* every URL of the text is extracted as it is written
WrittenAsExtracted(text) ==
    \A k \in 1..Len(matchUrls(text, 1)) :
        sanitizeUrlCandidate(matchUrls(text, 1)[k]) = matchUrls(text, 1)[k]

\* the result URL the cache holds for a URL; the URL itself when it has none
\* or was not mirrored
resultUrlOf(cache, url) ==
    IF CacheIndex(cache, url) # 0
       /\ cache[CacheIndex(cache, url)].resultUrl \notin {<<>>, url}
    THEN cache[CacheIndex(cache, url)].resultUrl
    ELSE url

RECURSIVE replaceEachOwn(_, _, _)
\* the text from index i on, each occurrence of a URL replaced by the result
\* URL of that URL
replaceEachOwn(text, i, cache) ==
    IF i > Len(text) THEN <<>>
    ELSE IF text[i] \in SchemeAtoms
    THEN resultUrlOf(cache, SubSeq(text, i, matchEnd(text, i)))
         \o replaceEachOwn(text, matchEnd(text, i) + 1, cache)
    ELSE <<text[i]>> \o replaceEachOwn(text, i + 1, cache)

RunSteps ==
    \/ NextQuery
    \/ Finish
    \/ WindowStop
    \/ PageTop
    \/ ListFetch
    \/ ListFailed
    \/ PageCheckpoint
    \/ ItemSkip
    \/ ItemRequest
    \/ DetailFetch
    \/ DetailFailed
    \/ AssetErrorLog
    \/ DetailSave
    \/ DetailCheckpoint
    \/ PageDone

NextLive == Start \/ RunSteps

SpecLive == Init /\ [][NextLive]_vars /\ WF_vars(RunSteps)

\* the context of the request the run is about to send
PendingContext ==
    IF pc = "list_fetch"
    THEN [type |-> "list", offset |-> mem.localOffset, slug |-> -1,
          query |-> mem.queryKey]
    ELSE [type |-> "detail", offset |-> mem.localOffset,
          slug |-> mem.items[mem.idx], query |-> mem.queryKey]

\* whatever the outcomes of the attempts, the call made here calls the
\* request function at least once and at most maxRetries times, and ends by
\* a return or a throw
RetryEnds ==
    pc \in {"list_fetch", "detail_fetch"} =>
        \A outs \in [1..MaxRetries -> AttemptOutcomes] :
            \A r \in {requestWithRetry(outs, PendingContext, MaxRetries)} :
                /\ CountEvents(r.events, "call") \in 1..MaxRetries
                /\ r.events[Len(r.events)].e \in {"return", "throw"}
                /\ \A j \in 1..(Len(r.events) - 1) :
                      r.events[j].e \notin {"return", "throw"}

Running == pc \notin {"down", "exited"}

\* the page loop of a query is left
LeavesPageLoop == Running /\ pc' \in {"loop", "finish"} /\ pc \notin {"loop", "finish"}

TerminalStatuses == {"completed", "failed"}

\* C40: every requestWithRetry call ends after at most maxRetries
\* attempts whatever the outcomes of the attempts; the page loop of a query
\* is left only at the configured result window or on a list response that
\* is an empty page or carries an error; a run that is not interrupted ends,
\* and when main() has returned every query of the run has a terminal
\* status.
C40_Termination ==
    /\ []RetryEnds
    /\ [][LeavesPageLoop =>
            \/ pc = "page" /\ windowReached(mem.localOffset)
            \/ /\ ListRequestIssued
               /\ \/ EmptyPage(hist')
                  \/ getListError(hist'.listMeta) # NoMessage]_vars
    /\ [][(Running /\ pc' = "page" /\ pc = "item") =>
            mem'.localOffset = mem.localOffset + ListLimit]_vars
    /\ []((pc = "exited" /\ net.exitCode = 0) =>
            \A k \in RunQueries : queryStatus(db.state, k) \in TerminalStatuses)
    /\ (Running ~> pc = "exited")

\* main() has returned from a run of two queries: the first ended on a
\* list response with an error, the second on the empty page after its items
C40_Witness ==
    /\ pc = "exited"
    /\ net.exitCode = 0
    /\ cfg.multi
    /\ hist.runs = 1
    /\ queryStatus(db.state, "a") = "failed"
    /\ queryStatus(db.state, "b") = "completed"
    /\ db.state.multiQuery.perQuery["b"].listRequests = 2
    /\ db.detail = {1, 2}

====
